---- MODULE Spec2Model ----
(***************************************************************************)
(* Media grouping, segment detection and dedupe filtering of DMS           *)
(* (src/src/scanner.py).  File names are TLA+ strings; a character is a     *)
(* string of length one.                                                   *)
(***************************************************************************)
EXTENDS Integers, Sequences, FiniteSets, TLC

\* ------------------------------------------------------------------------
\* Characters and the str methods the scanner uses
\* ------------------------------------------------------------------------

\* The characters of the modelled file names, in code point order.
Chars ==
    << " ", "(", ")", "-", ".",
       "0", "1", "2", "3", "4", "5", "6", "7", "8", "9",
       "A", "B", "C", "D", "E", "F", "G", "H", "I", "J", "K", "L", "M",
       "N", "O", "P", "Q", "R", "S", "T", "U", "V", "W", "X", "Y", "Z",
       "[", "]", "_",
       "a", "b", "c", "d", "e", "f", "g", "h", "i", "j", "k", "l", "m",
       "n", "o", "p", "q", "r", "s", "t", "u", "v", "w", "x", "y", "z" >>

CharSet == { Chars[i] : i \in 1..Len(Chars) }

\* Rank of a character in code point order (Python compares str by code point).
Ord == [ c \in CharSet |-> CHOOSE i \in 1..Len(Chars) : Chars[i] = c ]

UpperChars == { Chars[i] : i \in Ord["A"]..Ord["Z"] }

DigitChars == { Chars[i] : i \in Ord["0"]..Ord["9"] }

\* The element of a one-element set
The(S) == CHOOSE x \in S : TRUE

\* s[i] as a one-character string (1-based).
Ch(s, i) == SubSeq(s, i, i)

\* str.lower() on one character.
LowerChar == [ c \in CharSet |->
                 IF c \in UpperChars THEN Chars[Ord[c] - Ord["A"] + Ord["a"]] ELSE c ]

RECURSIVE Lower(_)
\* str.lower()
Lower(s) == IF s = "" THEN "" ELSE LowerChar[Head(s)] \o Lower(Tail(s))

RECURSIVE ReplaceChar(_, _, _)
\* str.replace(old, new) for a one-character old; new may be empty.
ReplaceChar(s, old, new) ==
    IF s = "" THEN ""
    ELSE (IF Head(s) = old THEN new ELSE Head(s)) \o ReplaceChar(Tail(s), old, new)

\* str.rfind(c), 1-based; 0 when c does not occur.
RFind(s, c) ==
    LET hits == { i \in 1..Len(s) : Ch(s, i) = c }
    IN  IF hits = {} THEN 0 ELSE CHOOSE i \in hits : \A j \in hits : j <= i

\* str.strip(cs): drop leading and trailing characters that are in cs.
StripChars(s, cs) ==
    LET keep == { i \in 1..Len(s) : Ch(s, i) \notin cs }
    IN  IF keep = {} THEN ""
        ELSE SubSeq(s, CHOOSE i \in keep : \A j \in keep : i <= j,
                       CHOOSE i \in keep : \A j \in keep : j <= i)

\* \s of the regular expressions, over the modelled characters.
WsChars == { " " }

\* str < str, lexicographic by code point.
RECURSIVE StrLess(_, _)
StrLess(a, b) ==
    IF b = "" THEN FALSE
    ELSE IF a = "" THEN TRUE
    ELSE IF Head(a) = Head(b) THEN StrLess(Tail(a), Tail(b))
    ELSE Ord[Head(a)] < Ord[Head(b)]

\* Optional[int] None of the segment number.
None == -1

\* ------------------------------------------------------------------------
\* _normalize_name
\* ------------------------------------------------------------------------

\* s[i:] matches \s*\[[^\]]+\]\s*$
BracketTailAt(s, i) ==
    LET n    == Len(s)
        nws  == { j \in i..n : Ch(s, j) \notin WsChars }
        j    == IF nws = {} THEN n + 1 ELSE CHOOSE a \in nws : \A b \in nws : a <= b
    IN  /\ j <= n
        /\ Ch(s, j) = "["
        /\ \E k \in (j + 2)..n :
              /\ Ch(s, k) = "]"
              /\ \A m \in (j + 1)..(k - 1) : Ch(s, m) # "]"
              /\ \A m \in (k + 1)..n : Ch(s, m) \in WsChars

\* re.sub(r"\s*\[[^\]]+\]\s*$", "", s): the leftmost match is removed.
StripBracketOnce(s) ==
    LET at == { i \in 1..Len(s) : BracketTailAt(s, i) }
    IN  IF at = {} THEN s
        ELSE SubSeq(s, 1, (CHOOSE i \in at : \A j \in at : i <= j) - 1)

RECURSIVE StripTrailingBrackets(_)
\* The while loop that strips bracket blocks until nothing changes.
StripTrailingBrackets(s) ==
    LET t == StripBracketOnce(s)
    IN  IF t = s THEN s ELSE StripTrailingBrackets(t)

\* Length of the maximal run of characters of cs that ends at position e.
RunBefore(s, e, cs) ==
    LET stop == { i \in 1..e : Ch(s, i) \notin cs }
    IN  IF stop = {} THEN e ELSE e - (CHOOSE i \in stop : \A j \in stop : j <= i)

RECURSIVE ToInt(_)
\* int() of a string of decimal digits.
ToInt(d) ==
    IF d = "" THEN 0
    ELSE ToInt(SubSeq(d, 1, Len(d) - 1)) * 10 + (Ord[Ch(d, Len(d))] - Ord["0"])

\* [\._\-\s] of the first pattern and [\._\-] of the third.
SepWsChars == { ".", "_", "-", " " }
SepChars == { ".", "_", "-" }

\* The alternatives (?:part|seg|segment), matched ignoring case.
SegmentWords == { "part", "seg", "segment" }

NoMatch == [ok |-> FALSE, root |-> "", num |-> 0]

\* _SEGMENT_PATTERNS[0]: ^(root.*?)[\._\-\s]?(part|seg|segment)[\._\-\s]*?(\d{1,3})$
MatchMarker(s) ==
    LET n   == Len(s)
        nd  == RunBefore(s, n, DigitChars)
        ns  == RunBefore(s, n - nd, SepWsChars)
        e   == n - nd - ns
        ws  == { w \in SegmentWords :
                   /\ Len(w) <= e
                   /\ Lower(SubSeq(s, e - Len(w) + 1, e)) = w }
    IN  IF nd \in 1..3 /\ ws # {}
        THEN LET w == CHOOSE v \in ws : \A u \in ws : Len(u) <= Len(v)
                 p == e - Len(w)
                 \* the lazy root leaves one separator to [\._\-\s]? when there is one
                 r == IF p >= 1 /\ Ch(s, p) \in SepWsChars THEN p - 1 ELSE p
             IN  [ok |-> TRUE, root |-> SubSeq(s, 1, r),
                  num |-> ToInt(SubSeq(s, n - nd + 1, n))]
        ELSE NoMatch

\* _SEGMENT_PATTERNS[1]: ^(root.*?)[\s]*\((\d{1,3})\)$
MatchParen(s) ==
    LET n   == Len(s)
        nd  == IF n >= 1 /\ Ch(s, n) = ")" THEN RunBefore(s, n - 1, DigitChars) ELSE 0
        o   == n - 1 - nd
    IN  IF nd \in 1..3 /\ o >= 1 /\ Ch(s, o) = "("
        THEN [ok |-> TRUE,
              root |-> SubSeq(s, 1, o - 1 - RunBefore(s, o - 1, WsChars)),
              num |-> ToInt(SubSeq(s, n - nd, n - 1))]
        ELSE NoMatch

\* _SEGMENT_PATTERNS[2]: ^(root.*?)[\._\-](\d{1,3})$
MatchSuffix(s) ==
    LET n   == Len(s)
        nd  == RunBefore(s, n, DigitChars)
    IN  IF nd \in 1..3 /\ n - nd >= 1 /\ Ch(s, n - nd) \in SepChars
        THEN [ok |-> TRUE, root |-> SubSeq(s, 1, n - nd - 1),
              num |-> ToInt(SubSeq(s, n - nd + 1, n))]
        ELSE NoMatch

\* SegmentMatches with the bare numeric suffix tried first
SegmentMatches_SuffixFirst(s) == << MatchSuffix(s), MatchParen(s), MatchMarker(s) >>

\* The patterns in the order the for loop tries them.
SegmentMatches(s) == << MatchMarker(s), MatchParen(s), MatchSuffix(s) >>

\* FirstSegment without the range test on the number
FirstSegment_AnyNumber(stem, ms) ==
    LET hit == { i \in 1..Len(ms) : ms[i].ok }
    IN  IF hit = {} THEN [root |-> stem, seg |-> None]
        ELSE The({ [root |-> StripChars(ms[i].root, {" ", ".", "-", "_"}), seg |-> ms[i].num] :
                     i \in { a \in hit : \A c \in hit : a <= c } })

\* The for loop over the patterns: the first match whose number is in 1..999
\* is returned, with the root stripped; without one, (stem, None)
FirstSegment(stem, ms) ==
    LET hit == { i \in 1..Len(ms) : ms[i].ok /\ 1 <= ms[i].num /\ ms[i].num <= 999 }
    IN  IF hit = {} THEN [root |-> stem, seg |-> None]
        ELSE The({ [root |-> StripChars(ms[i].root, {" ", ".", "-", "_"}), seg |-> ms[i].num] :
                     i \in { a \in hit : \A c \in hit : a <= c } })

\* _normalize_name(stem) -> (root, segment or None)
NormalizeName(stem0) ==
    The({ FirstSegment(stem, ms) :
            << stem, ms >> \in { << t, SegmentMatches(StripTrailingBrackets(t)) >> :
                                  t \in { StripChars(stem0, WsChars) } } })

\* ------------------------------------------------------------------------
\* ScanResult.filter_against_filenames._variants
\* ------------------------------------------------------------------------

\* Length of the maximal run of characters NOT in cs that starts at position b.
RunFromNotIn(s, b, cs) ==
    LET stop == { i \in b..Len(s) : Ch(s, i) \in cs }
    IN  IF stop = {} THEN Len(s) - b + 1
        ELSE (CHOOSE i \in stop : \A j \in stop : i <= j) - b

\* re.search(r'^([^[\s]+)\s*\[([^\]]+)\](.*)$', base) and the hash_hash spelling
BracketVariant(base, ext) ==
    LET n    == Len(base)
        np   == RunFromNotIn(base, 1, WsChars \cup {"["})
        nw   == RunFromNotIn(base, np + 1, CharSet \ WsChars)
        o    == np + nw + 1
        nc   == RunFromNotIn(base, o + 1, {"]"})
        c    == o + nc + 1
    IN  IF /\ np >= 1 /\ o <= n /\ Ch(base, o) = "["
           /\ nc >= 1 /\ c <= n
           /\ StripChars(SubSeq(base, o + 1, c - 1), WsChars)
                = StripChars(SubSeq(base, 1, np), WsChars)
        THEN { SubSeq(base, 1, np) \o "_" \o SubSeq(base, o + 1, c - 1)
                 \o SubSeq(base, c + 1, n) \o ext }
        ELSE {}

\* re.search(r'^([^\s_]+)_([^\s_]+)(.*)$', base) and the "hash [hash]" spelling
UnderscoreVariant(base, ext) ==
    LET n    == Len(base)
        n1   == RunFromNotIn(base, 1, WsChars \cup {"_"})
        n2   == RunFromNotIn(base, n1 + 2, WsChars \cup {"_"})
    IN  IF /\ n1 >= 1 /\ n1 + 1 <= n /\ Ch(base, n1 + 1) = "_"
           /\ n2 >= 1
           /\ SubSeq(base, 1, n1) = SubSeq(base, n1 + 2, n1 + 1 + n2)
        THEN { SubSeq(base, 1, n1) \o " [" \o SubSeq(base, n1 + 2, n1 + 1 + n2) \o "]"
                 \o SubSeq(base, n1 + 2 + n2, n) \o ext }
        ELSE {}

\* Variants without the spaces -> underscores, brackets removed spelling
Variants_NoDiscord(name) ==
    LET name_l == Lower(name)
        dot    == RFind(name_l, ".")
        base   == IF dot <= 1 THEN name_l ELSE SubSeq(name_l, 1, dot - 1)
        ext    == IF dot <= 1 THEN "" ELSE SubSeq(name_l, dot, Len(name_l))
    IN  {name_l}
          \cup { StripTrailingBrackets(base) \o ext }
          \cup BracketVariant(base, ext)
          \cup UnderscoreVariant(base, ext)
          \cup { ReplaceChar(base, "_", " ") \o ext }

\* _variants(name), as the set of its elements
Variants(name) ==
    LET name_l == Lower(name)
        dot    == RFind(name_l, ".")
        base   == IF dot <= 1 THEN name_l ELSE SubSeq(name_l, 1, dot - 1)
        ext    == IF dot <= 1 THEN "" ELSE SubSeq(name_l, dot, Len(name_l))
    IN  {name_l}
          \cup { StripTrailingBrackets(base) \o ext }
          \cup BracketVariant(base, ext)
          \cup UnderscoreVariant(base, ext)
          \cup { ReplaceChar(ReplaceChar(ReplaceChar(base, " ", "_"), "[", ""), "]", "") \o ext }
          \cup { ReplaceChar(base, "_", " ") \o ext }

\* ------------------------------------------------------------------------
\* scan_media
\* ------------------------------------------------------------------------

VIDEO_EXTS == { ".mp4", ".webm", ".mov", ".mkv" }
GIF_EXTS == { ".gif" }
IMAGE_EXTS == { ".png", ".jpg", ".jpeg", ".webp" }
MEDIA_EXTS == VIDEO_EXTS \cup GIF_EXTS \cup IMAGE_EXTS

\* A file of the tree is [dir |-> POSIX path of its parent relative to root_dir
\* ("." for root_dir itself), name |-> file name].

\* Path.suffix
Suffix(name) ==
    LET i == RFind(name, ".")
    IN  IF 1 < i /\ i < Len(name) THEN SubSeq(name, i, Len(name)) ELSE ""

\* Path.stem
Stem(name) ==
    LET i == RFind(name, ".")
    IN  IF 1 < i /\ i < Len(name) THEN SubSeq(name, 1, i - 1) ELSE name

IsMedia(f) == Lower(Suffix(f.name)) \in MEDIA_EXTS

\* all_media_files of the parent directory of p
AllMediaFiles(p, tree) == { f \in tree : f.dir = p.dir /\ IsMedia(f) }

\* len(root_counts.get(root, [])): one entry per media file of the directory
\* whose stem parses to a segment number with this lowercased root
RootCount(root, files) ==
    Cardinality({ f \in files :
                    \E n \in { NormalizeName(Stem(f.name)) } :
                       n.seg # None /\ Lower(n.root) = root })

ShouldCheckSegments(p, tree) ==
    \E n \in { NormalizeName(Stem(p.name)) } :
       /\ n.seg # None
       /\ RootCount(Lower(n.root), AllMediaFiles(p, tree)) > 1

\* BucketKey with the segment number left out of the key
BucketKey_NoSeg(p, tree) ==
    IF ShouldCheckSegments(p, tree)
    THEN << p.dir, Lower(NormalizeName(Stem(p.name)).root), None >>
    ELSE << p.dir, Lower(Stem(p.name)), None >>

\* key = (dir_key, root_name.lower(), seg_num) of one file
BucketKey(p, tree) ==
    IF ShouldCheckSegments(p, tree)
    THEN The({ << p.dir, Lower(n.root), n.seg >> : n \in { NormalizeName(Stem(p.name)) } })
    ELSE << p.dir, Lower(Stem(p.name)), None >>

\* buckets[key][ext] = p on a dict that keeps insertion order
PutExt(files, ext, p) ==
    IF \E i \in 1..Len(files) : files[i].ext = ext
    THEN [ i \in 1..Len(files) |->
             IF files[i].ext = ext THEN [ext |-> ext, path |-> p] ELSE files[i] ]
    ELSE Append(files, [ext |-> ext, path |-> p])

\* files.get(ext): the set holding the path, empty for None
GetExt(files, ext) == { files[i].path : i \in { j \in 1..Len(files) : files[j].ext = ext } }

\* SortKeyLess with the segment flag compared before the root: every
\* unsegmented bucket of a directory before every segmented one
SortKeyLess_FlagFirst(k1, k2) ==
    LET b1 == IF k1[3] # None THEN 1 ELSE 0
        b2 == IF k2[3] # None THEN 1 ELSE 0
        n1 == IF k1[3] # None THEN k1[3] ELSE 0
        n2 == IF k2[3] # None THEN k2[3] ELSE 0
    IN  \/ StrLess(k1[1], k2[1])
        \/ k1[1] = k2[1] /\ b1 < b2
        \/ k1[1] = k2[1] /\ b1 = b2 /\ StrLess(k1[2], k2[2])
        \/ k1[1] = k2[1] /\ b1 = b2 /\ k1[2] = k2[2] /\ n1 < n2

\* SortKeyLess with "seg_num is None" for "seg_num is not None"
SortKeyLess_SegmentedFirst(k1, k2) ==
    LET b1 == IF k1[3] = None THEN 1 ELSE 0
        b2 == IF k2[3] = None THEN 1 ELSE 0
        n1 == IF k1[3] # None THEN k1[3] ELSE 0
        n2 == IF k2[3] # None THEN k2[3] ELSE 0
    IN  \/ StrLess(k1[1], k2[1])
        \/ k1[1] = k2[1] /\ StrLess(k1[2], k2[2])
        \/ k1[1] = k2[1] /\ k1[2] = k2[2] /\ b1 < b2
        \/ k1[1] = k2[1] /\ k1[2] = k2[2] /\ b1 = b2 /\ n1 < n2

\* _sort_key(item) < _sort_key(other): tuples compare element by element
SortKeyLess(k1, k2) ==
    LET b1 == IF k1[3] # None THEN 1 ELSE 0
        b2 == IF k2[3] # None THEN 1 ELSE 0
        n1 == IF k1[3] # None THEN k1[3] ELSE 0
        n2 == IF k2[3] # None THEN k2[3] ELSE 0
    IN  \/ StrLess(k1[1], k2[1])
        \/ k1[1] = k2[1] /\ StrLess(k1[2], k2[2])
        \/ k1[1] = k2[1] /\ k1[2] = k2[2] /\ b1 < b2
        \/ k1[1] = k2[1] /\ k1[2] = k2[2] /\ b1 = b2 /\ n1 < n2

RECURSIVE SortedKeys(_)
\* sorted(buckets.items(), key=_sort_key), as the sequence of the keys
SortedKeys(keys) ==
    IF keys = {} THEN << >>
    ELSE LET k == CHOOSE a \in keys : \A b \in keys \ {a} : SortKeyLess(a, b)
         IN  << k >> \o SortedKeys(keys \ {k})

\* BucketPairs with root_key built from the mp4's stem instead of root_name
BucketPairs_StemKey(key, files) ==
    LET mp4 == GetExt(files, ".mp4")
        gif == GetExt(files, ".gif")
    IN  IF mp4 # {} /\ gif # {}
        THEN << [root_key |-> key[1] \o "/" \o Lower(Stem((CHOOSE f \in mp4 : TRUE).name)),
                 mp4_path |-> CHOOSE f \in mp4 : TRUE,
                 gif_path |-> CHOOSE f \in gif : TRUE] >>
        ELSE << >>

\* The pairs one bucket contributes
BucketPairs(key, files) ==
    LET mp4 == GetExt(files, ".mp4")
        gif == GetExt(files, ".gif")
    IN  IF mp4 # {} /\ gif # {}
        THEN << [root_key |-> key[1] \o "/" \o key[2],
                 mp4_path |-> CHOOSE f \in mp4 : TRUE,
                 gif_path |-> CHOOSE f \in gif : TRUE] >>
        ELSE << >>

\* The singles one bucket contributes: mp4, gif, then the others in dict order
BucketSingles(key, files) ==
    LET mp4 == GetExt(files, ".mp4")
        gif == GetExt(files, ".gif")
        rk  == key[1] \o "/" \o key[2]
        IsOther(e) == e.ext # ".mp4" /\ e.ext # ".gif" /\ e.ext \in MEDIA_EXTS
        others == SelectSeq(files, IsOther)
        one(S) == IF S = {} THEN << >> ELSE << [root_key |-> rk, path |-> CHOOSE f \in S : TRUE] >>
    IN  IF mp4 # {} /\ gif # {}
        THEN << >>
        ELSE one(mp4) \o one(gif) \o [ i \in 1..Len(others) |-> [root_key |-> rk, path |-> others[i].path] ]

RECURSIVE EmitPairs(_, _)
EmitPairs(keys, b) ==
    IF keys = << >> THEN << >>
    ELSE BucketPairs(Head(keys), b[Head(keys)]) \o EmitPairs(Tail(keys), b)

RECURSIVE EmitSingles(_, _)
EmitSingles(keys, b) ==
    IF keys = << >> THEN << >>
    ELSE BucketSingles(Head(keys), b[Head(keys)]) \o EmitSingles(Tail(keys), b)

\* ------------------------------------------------------------------------
\* list_top_level_media_subdirs
\* ------------------------------------------------------------------------

\* path.split("/", 1)[0]
DirPart(path) ==
    LET stop == { i \in 1..Len(path) : Ch(path, i) = "/" }
    IN  IF stop = {} THEN path
        ELSE SubSeq(path, 1, (CHOOSE i \in stop : \A j \in stop : i <= j) - 1)

\* _add_from_root_key without the "not in seen" test
AddFromRootKey_NoSeen(ordered, root_key) ==
    LET dir_part == DirPart(root_key)
    IN  IF dir_part # "" /\ dir_part # "."
        THEN Append(ordered, dir_part)
        ELSE ordered

\* _add_from_root_key: ordered after the call; seen is the set of its elements
AddFromRootKey(ordered, root_key) ==
    LET dir_part == DirPart(root_key)
    IN  IF dir_part # "" /\ dir_part # "." /\ \A i \in 1..Len(ordered) : ordered[i] # dir_part
        THEN Append(ordered, dir_part)
        ELSE ordered

\* The two loops: the root keys of the pairs, then those of the singles
RECURSIVE AddAllRootKeys(_, _)
AddAllRootKeys(ordered, keys) ==
    IF keys = << >> THEN ordered
    ELSE AddAllRootKeys(AddFromRootKey(ordered, Head(keys)), Tail(keys))

\* The list the function returns for the scan result R when the top-level
\* directories in gone no longer exist
ListTopLevelMediaSubdirs(R, gone) ==
    LET keys    == [ i \in 1..Len(R.pairs) |-> R.pairs[i].root_key ]
                     \o [ i \in 1..Len(R.singles) |-> R.singles[i].root_key ]
        ordered == AddAllRootKeys(<< >>, keys)
        exists(name) == name \notin gone
    IN  SelectSeq(ordered, exists)

\* ------------------------------------------------------------------------
\* suggest_thread_title_for_subdir
\* ------------------------------------------------------------------------

\* The media files directly in the directory: one entry of stems for each
MediaChildren(files) == { f \in files : IsMedia(f) }

\* bases: the lowercased root of every stem with a segment number, as the
\* function file -> root over the files with a segmented stem
SegmentBases(media) ==
    LET norm == [ f \in media |-> NormalizeName(Stem(f.name)) ]
        segm == { f \in media : norm[f].seg # None }
    IN  [ f \in segm |-> Lower(norm[f].root) ]

\* Counter(bases).most_common(1)[0]: a base with the largest count and that
\* count. Among bases of equal count Counter takes the first inserted; a tie
\* never passes the 70% test that follows, so any of them may stand for it.
MostCommon(bases) ==
    LET all    == { bases[f] : f \in DOMAIN bases }
        cnt(b) == Cardinality({ f \in DOMAIN bases : bases[f] = b })
        top    == CHOOSE b \in all : \A c \in all : cnt(c) <= cnt(b)
    IN  [base |-> top, count |-> cnt(top)]

\* InferSegmentBase with both thresholds exclusive
InferSegmentBase_Exclusive(files) ==
    The({ IF media = {} \/ DOMAIN bases = {} THEN {}
          ELSE IF 10 * Cardinality(DOMAIN bases) <= 7 * Cardinality(media) THEN {}
          ELSE IF 10 * MostCommon(bases).count > 7 * Cardinality(DOMAIN bases)
               THEN { MostCommon(bases).base }
          ELSE {} :
          << media, bases >> \in { << m, SegmentBases(m) >> : m \in { MediaChildren(files) } } })

\* _infer_segment_base_from_dir(dir_path) for a directory holding files: the
\* set holding the dominant base, empty for None. segmented / len(stems) <
\* 0.7 is 10 * segmented < 7 * len(stems): the quotient of two small integers
\* is the double 0.7 exactly when it is 7/10.
InferSegmentBase(files) ==
    The({ IF media = {} \/ DOMAIN bases = {} THEN {}
          ELSE IF 10 * Cardinality(DOMAIN bases) < 7 * Cardinality(media) THEN {}
          ELSE IF 10 * MostCommon(bases).count >= 7 * Cardinality(DOMAIN bases)
               THEN { MostCommon(bases).base }
          ELSE {} :
          << media, bases >> \in { << m, SegmentBases(m) >> : m \in { MediaChildren(files) } } })

\* name_l.endswith("_segments")
EndsWithSegments(name) ==
    /\ Len(name) >= 9
    /\ Lower(SubSeq(name, Len(name) - 8, Len(name))) = "_segments"

\* suggest_thread_title_for_subdir(dir_path): name is the directory's name,
\* files are the files directly in it. "if inferred:" is false for None and
\* for the empty string.
SuggestThreadTitle(name, files) ==
    IF EndsWithSegments(name) /\ Len(name) > 9 THEN SubSeq(name, 1, Len(name) - 9)
    ELSE The({ IF inferred # {} /\ inferred # {""} THEN The(inferred) ELSE name :
               inferred \in { InferSegmentBase(files) } })

\* ------------------------------------------------------------------------
\* ScanResult.filter_against_filenames
\* ------------------------------------------------------------------------

\* existing_l: the variants of every name of existing
ExistingVariants(E) == UNION { Variants(n) : n \in E }

\* Exists that looks up the lowercased name only, not its variants
Exists_NameOnly(name, EL) == Lower(name) \in EL

\* any(v in existing_l for v in _variants(name))
Exists(name, EL) == Variants(name) \cap EL # {}

\* PairLeftover with the tests of the else branch inverted: the matched
\* member is re-emitted
PairLeftover_Inverted(pair, EL) ==
    LET mp4_exists == Exists(pair.mp4_path.name, EL)
        gif_exists == Exists(pair.gif_path.name, EL)
    IN  IF ~mp4_exists /\ ~gif_exists THEN << >>
        ELSE (IF mp4_exists THEN << [root_key |-> pair.root_key, path |-> pair.mp4_path] >> ELSE << >>)
          \o (IF gif_exists THEN << [root_key |-> pair.root_key, path |-> pair.gif_path] >> ELSE << >>)

\* PairLeftover with the two appends outside the else branch: they also run
\* for a pair that is kept
PairLeftover_NoElse(pair, EL) ==
    LET mp4_exists == Exists(pair.mp4_path.name, EL)
        gif_exists == Exists(pair.gif_path.name, EL)
    IN  (IF ~mp4_exists THEN << [root_key |-> pair.root_key, path |-> pair.mp4_path] >> ELSE << >>)
          \o (IF ~gif_exists THEN << [root_key |-> pair.root_key, path |-> pair.gif_path] >> ELSE << >>)

\* What one pass over self.pairs appends to leftover_singles for one pair
PairLeftover(pair, EL) ==
    LET mp4_exists == Exists(pair.mp4_path.name, EL)
        gif_exists == Exists(pair.gif_path.name, EL)
    IN  IF ~mp4_exists /\ ~gif_exists THEN << >>
        ELSE (IF ~mp4_exists THEN << [root_key |-> pair.root_key, path |-> pair.mp4_path] >> ELSE << >>)
          \o (IF ~gif_exists THEN << [root_key |-> pair.root_key, path |-> pair.gif_path] >> ELSE << >>)

RECURSIVE PassLeftover(_, _)
\* One "for pair in self.pairs" loop's appends to leftover_singles
PassLeftover(pairs, EL) ==
    IF pairs = << >> THEN << >>
    ELSE PairLeftover(Head(pairs), EL) \o PassLeftover(Tail(pairs), EL)

\* leftover_singles at the return: the list is created once and both loops
\* over self.pairs (lines 154-165 and 178-189) append to it
LeftoverSingles(pairs, EL) == PassLeftover(pairs, EL) \o PassLeftover(pairs, EL)

\* KeepPair with "or" for "and": a pair with one matching member is kept
KeepPair_Either(pair, EL) == ~Exists(pair.mp4_path.name, EL) \/ ~Exists(pair.gif_path.name, EL)

\* "if not mp4_exists and not gif_exists" of the second loop: the pair is kept
KeepPair(pair, EL) == ~Exists(pair.mp4_path.name, EL) /\ ~Exists(pair.gif_path.name, EL)

\* filter_against_filenames(self, existing)
FilterAgainstFilenames(R, E) ==
    The({ LET Kept(p) == KeepPair(p, EL)
              KeepSingle(s) == ~Exists(s.path.name, EL)
          IN  [pairs   |-> SelectSeq(R.pairs, Kept),
               singles |-> SelectSeq(R.singles, KeepSingle) \o LeftoverSingles(R.pairs, EL)] :
          EL \in { ExistingVariants(E) } })

\* ------------------------------------------------------------------------
\* State machine: one scan of a tree, then dedupe filtering of its result
\* ------------------------------------------------------------------------

\* Largest number of files in a scanned tree
MaxFiles == 4
\* Largest number of names in a remote catalog
MaxExisting == 2

F(d, n) == [dir |-> d, name |-> n]

\* The files a tree is drawn from
Universe ==
    { F(".", "clip.mp4"), F(".", "clip.gif"), F(".", "clip.png"), F(".", "clip.MP4"),
      F(".", "a.mp4"), F(".", "a_1.mp4"), F(".", "a_2.mp4"), F(".", "a_2.gif"),
      F(".", "a_10.mp4"), F(".", "a_3.txt"),
      F("A", "a_1.mp4") }

\* The names a remote catalog is drawn from
RemoteNames == { "clip.gif", "CLIP.mp4", "a 2 [t].mp4", "a [a].mp4" }

Trees == { t \in SUBSET Universe : Cardinality(t) <= MaxFiles }
Catalogs == { e \in SUBSET RemoteNames : Cardinality(e) <= MaxExisting }

EmptyResult == [pairs |-> << >>, singles |-> << >>]

VARIABLES
    tree,       \* the files under root_dir
    todo,       \* files root_dir.rglob("*") has not yielded yet
    buckets,    \* scan_media's buckets: key -> sequence of [ext, path]
    pc,         \* position of the run: "scan", "scanned", "filtered", ...
    result,     \* the current ScanResult
    filterIn,   \* the ScanResult the last filter call was made on
    existing,   \* the argument of the last filter call
    rootKind,   \* what root_dir is on disk: "dir", "file" or "missing"
    firstScan,  \* the ScanResults of the earlier scans of the same tree
    duplicates, \* send_media_job's duplicates_detected
    subdirs,    \* the list list_top_level_media_subdirs returned
    removed,    \* top-level directories deleted between the scan and the listing
    arg,        \* the argument of a call of _normalize_name or _variants
    ret,        \* what that call returned
    job,        \* the locals of a running send_media_job
    channel,    \* the destination channel: the operations made on it, in order
    threads,    \* the position and the locals of each running thread
    store,      \* a DedupeStore: its _lock and its _data
    fetch       \* the locals of a running fetch_existing_filenames

\* The state outside one scan-and-filter run
aux == << rootKind, firstScan, duplicates, subdirs, removed, arg, ret >>

\* The state of the upload, of the history fetch and of the dedupe store
jobVars == << job, channel, threads, store, fetch >>

vars == << tree, todo, buckets, pc, result, filterIn, existing,
           rootKind, firstScan, duplicates, subdirs, removed, arg, ret,
           job, channel, threads, store, fetch >>

\* Nothing but a scan of an existing directory has been asked for
\* No upload, no history fetch and no store is in use
InitExt ==
    /\ job = << >>
    /\ channel = << >>
    /\ threads = << >>
    /\ store = << >>
    /\ fetch = << >>

InitAux ==
    /\ rootKind = "dir"
    /\ firstScan = << >>
    /\ duplicates = << >>
    /\ subdirs = << >>
    /\ removed = {}
    /\ arg = ""
    /\ ret = None
    /\ InitExt

Init ==
    /\ tree \in Trees
    /\ todo = tree
    /\ buckets = << >>
    /\ pc = "scan"
    /\ result = EmptyResult
    /\ filterIn = EmptyResult
    /\ existing = {}
    /\ InitAux

\* One iteration of "for p in root_dir.rglob('*')"; the order is the file system's
ScanVisit(p) ==
    /\ pc = "scan"
    /\ p \in todo
    /\ todo' = todo \ {p}
    /\ IF ~IsMedia(p)
       THEN UNCHANGED buckets
       ELSE \E key \in { BucketKey(p, tree) } :
              LET old == IF key \in DOMAIN buckets THEN buckets[key] ELSE << >>
              IN  buckets' = [ k \in DOMAIN buckets \cup {key} |->
                                 IF k = key THEN PutExt(old, Lower(Suffix(p.name)), p)
                                 ELSE buckets[k] ]
    /\ UNCHANGED << tree, pc, result, filterIn, existing >>
    /\ UNCHANGED aux
    /\ UNCHANGED jobVars

\* The loop over the sorted buckets and the return of scan_media
ScanEmit ==
    /\ pc = "scan"
    /\ todo = {}
    /\ LET keys == SortedKeys(DOMAIN buckets)
       IN  result' = [pairs |-> EmitPairs(keys, buckets), singles |-> EmitSingles(keys, buckets)]
    /\ pc' = "scanned"
    /\ UNCHANGED << tree, todo, buckets, filterIn, existing >>
    /\ UNCHANGED aux
    /\ UNCHANGED jobVars

\* scan.filter_against_filenames(E) on the result of the scan
Filter(E) ==
    /\ pc = "scanned"
    /\ filterIn' = result
    /\ existing' = E
    /\ result' = FilterAgainstFilenames(result, E)
    /\ pc' = "filtered"
    /\ UNCHANGED << tree, todo, buckets >>
    /\ UNCHANGED aux
    /\ UNCHANGED jobVars

\* The same filter applied to its own output
FilterAgain ==
    /\ pc = "filtered"
    /\ filterIn' = result
    /\ result' = FilterAgainstFilenames(result, existing)
    /\ pc' = "refiltered"
    /\ UNCHANGED << tree, todo, buckets, existing >>
    /\ UNCHANGED aux
    /\ UNCHANGED jobVars

Next ==
    \/ \E p \in Universe : ScanVisit(p)
    \/ ScanEmit
    \/ \E E \in Catalogs : Filter(E)
    \/ FilterAgain

Spec == Init /\ [][Next]_vars

\* The scan alone: the rglob loop, then the emission
NextScan ==
    \/ \E p \in todo : ScanVisit(p)
    \/ ScanEmit

\* The files of the end-to-end scenario
E2EFiles ==
    { F(".", "video.mp4"), F(".", "video.gif"), F(".", "photo.png"),
      F(".", "clip_1.mp4"), F(".", "clip_2.mp4") }

\* A directory holding some of the files of the scenario
InitE2E ==
    /\ tree \in SUBSET E2EFiles
    /\ todo = tree
    /\ buckets = << >>
    /\ pc = "scan"
    /\ result = EmptyResult
    /\ filterIn = EmptyResult
    /\ existing = {}
    /\ InitAux

SpecE2E == InitE2E /\ [][NextScan]_vars

\* Number of scans of one unchanged tree
MaxScans == 2

\* Files of which two share a bucket (a.png, a.jpg) and two collide on bucket
\* key and extension (clip.mp4, clip.MP4)
DetFiles ==
    { F(".", "a.png"), F(".", "a.jpg"), F(".", "clip.mp4"), F(".", "clip.MP4") }

InitRescan ==
    /\ tree \in SUBSET DetFiles
    /\ todo = tree
    /\ buckets = << >>
    /\ pc = "scan"
    /\ result = EmptyResult
    /\ filterIn = EmptyResult
    /\ existing = {}
    /\ InitAux

\* scan_media is called again on the unchanged tree: rglob starts over and
\* may yield the files in another order
Rescan ==
    /\ pc = "scanned"
    /\ Len(firstScan) + 1 < MaxScans
    /\ firstScan' = Append(firstScan, result)
    /\ todo' = tree
    /\ buckets' = << >>
    /\ result' = EmptyResult
    /\ pc' = "scan"
    /\ UNCHANGED << tree, filterIn, existing, rootKind, duplicates, subdirs, removed, arg, ret >>
    /\ UNCHANGED jobVars

NextRescan ==
    \/ NextScan
    \/ Rescan

SpecRescan == InitRescan /\ [][NextRescan]_vars

\* What the path given to scan_media can be on disk
RootKinds == { "dir", "file", "missing" }

\* What root_dir.rglob("*") yields: the entries under a directory, nothing
\* for a path that is a file or does not exist
RglobEntries(kind, files) == IF kind = "dir" THEN files ELSE {}

\* scan_media is called with any path; it does not look at what the path is
InitAnyRoot ==
    /\ rootKind \in RootKinds
    /\ tree \in { RglobEntries(rootKind, t) : t \in SUBSET E2EFiles }
    /\ todo = tree
    /\ buckets = << >>
    /\ pc = "scan"
    /\ result = EmptyResult
    /\ filterIn = EmptyResult
    /\ existing = {}
    /\ firstScan = << >>
    /\ duplicates = << >>
    /\ subdirs = << >>
    /\ removed = {}
    /\ arg = ""
    /\ ret = None
    /\ InitExt

SpecAnyRoot == InitAnyRoot /\ [][NextScan]_vars

\* Largest number of words before the tag of a local name
MaxWords == 2

\* The words, tags and extensions local names are built from
NameWords == { "My", "Clip", "x", "a_1" }
NameTags == { "ab12", "X" }
NameExts == { ".mp4", ".GIF" }

\* Sequences of 1..MaxWords words
WordSeqs == UNION { [1..n -> NameWords] : n \in 1..MaxWords }

\* The words joined by sep
RECURSIVE JoinWords(_, _)
JoinWords(ws, sep) ==
    IF Len(ws) = 1 THEN ws[1]
    ELSE ws[1] \o sep \o JoinWords(Tail(ws), sep)

\* "<words separated by spaces> [tag].<ext>"
TaggedName(ws, tag, ext) == JoinWords(ws, " ") \o " [" \o tag \o "]" \o ext

\* The names _variants is called on: tagged local names and the spellings of
\* them a remote catalog holds
FileNames ==
    { TaggedName(ws, tag, ext) : ws \in WordSeqs, tag \in NameTags, ext \in NameExts }
      \cup { "x_x.mp4", "a_b [t].mp4", "my clip.mp4", "My_Clip_ab12.mp4", "noext" }

\* No scan is under way: a function of the scanner is called on its own
NoScan ==
    /\ tree = {}
    /\ todo = {}
    /\ buckets = << >>
    /\ result = EmptyResult
    /\ filterIn = EmptyResult
    /\ existing = {}
    /\ rootKind = "dir"
    /\ firstScan = << >>
    /\ duplicates = << >>
    /\ subdirs = << >>
    /\ removed = {}
    /\ InitExt

InitNames ==
    /\ NoScan
    /\ pc = "call"
    /\ arg \in FileNames
    /\ ret = None

\* _variants(arg) returns
CallVariants ==
    /\ pc = "call"
    /\ ret' = Variants(arg)
    /\ pc' = "variants"
    /\ UNCHANGED << tree, todo, buckets, result, filterIn, existing,
                    rootKind, firstScan, duplicates, subdirs, removed, arg >>
    /\ UNCHANGED jobVars

SpecNames == InitNames /\ [][CallVariants]_vars

\* The files the input directory of a send job is drawn from
JobFiles ==
    { F(".", "clip.mp4"), F(".", "clip.gif"), F(".", "a.mp4"), F(".", "a_2.mp4"),
      F(".", "x.mp4") }

\* The remote catalogs fetch_existing_filenames returns to the job
JobCatalogs == Catalogs \cup { { "x_x.mp4" }, { "x_x.mp4", "clip.gif" } }

InitJob ==
    /\ tree \in SUBSET JobFiles
    /\ todo = tree
    /\ buckets = << >>
    /\ pc = "scan"
    /\ result = EmptyResult
    /\ filterIn = EmptyResult
    /\ existing = {}
    /\ rootKind = "dir"
    /\ firstScan = << >>
    /\ duplicates = << >>
    /\ subdirs = << >>
    /\ removed = {}
    /\ arg = ""
    /\ ret = None
    /\ job = [existing_set |-> {}]
    /\ channel = << >>
    /\ threads = << >>
    /\ store = << >>
    /\ fetch = << >>

\* The dedupe step of send_media_job on the remote names E. The diagnostics
\* block reads scan_before, which is assigned only after it, and calls a
\* method ScanResult does not have: its first statement raises, "except
\* Exception: pass" swallows it and duplicates_detected keeps its initial [].
\* Then the catalog is expanded with _variants and handed to the filter.
JobDedupe(E) ==
    /\ pc = "scanned"
    /\ duplicates' = << >>
    /\ filterIn' = result
    /\ existing' = ExistingVariants(E)
    /\ result' = FilterAgainstFilenames(result, ExistingVariants(E))
    /\ pc' = "deduped"
    /\ job' = [job EXCEPT !.existing_set = E]
    /\ UNCHANGED << tree, todo, buckets, rootKind, firstScan, subdirs, removed, arg, ret >>
    /\ UNCHANGED << channel, threads, store, fetch >>

NextJob ==
    \/ NextScan
    \/ \E E \in JobCatalogs : JobDedupe(E)

SpecJob == InitJob /\ [][NextJob]_vars

\* Files at the root, in subfolders A (with a nested folder), B and C
DirFiles ==
    { F(".", "r.mp4"), F("A", "a.png"), F("A/sub", "n.mp4"),
      F("B", "b.mp4"), F("B", "b.gif"), F("C", "notes.txt") }

\* The immediate subdirectories of root_dir that hold a file of the tree
TopDirs(files) == { DirPart(f.dir) : f \in files } \ { "." }

InitDirs ==
    /\ tree \in SUBSET DirFiles
    /\ todo = tree
    /\ buckets = << >>
    /\ pc = "scan"
    /\ result = EmptyResult
    /\ filterIn = EmptyResult
    /\ existing = {}
    /\ InitAux

\* The part of list_top_level_media_subdirs after its scan; the directories
\* in gone were deleted between the scan and the existence test
ListSubdirs(gone) ==
    /\ pc = "scanned"
    /\ removed' = gone
    /\ subdirs' = ListTopLevelMediaSubdirs(result, gone)
    /\ pc' = "listed"
    /\ UNCHANGED << tree, todo, buckets, result, filterIn, existing,
                    rootKind, firstScan, duplicates, arg, ret >>
    /\ UNCHANGED jobVars

NextList ==
    \/ NextScan
    \/ \E gone \in SUBSET TopDirs(tree) : ListSubdirs(gone)

SpecList == InitDirs /\ [][NextList]_vars

\* The parts stems are built from: root, segment marker, separator, number
\* and trailing bracket tokens
StemRoots == { "clip", "a.b" }
StemMarkers == { "", "_part", " Seg", "segment" }
StemSeps == { "", "_", "-", " " }
StemNumbers == { "", "0", "2", "07", "999", "1000", "(2)", "(0)" }
StemTails == { "", " [abcdef]" }

\* The stems _normalize_name is called on
Stems ==
    { r \o m \o sp \o n \o t :
        r \in StemRoots, m \in StemMarkers, sp \in StemSeps, n \in StemNumbers, t \in StemTails }
      \cup { "clip_part_2", "video_1 [abcdef]", "video (2) [xyz]", " clip ", "clip_3 ",
              "clip [a] [b]", "_clip-.part 12", "clip_1234", "clip (1234)", "12" }

InitStems ==
    /\ NoScan
    /\ pc = "call"
    /\ arg \in Stems
    /\ ret = None

\* _normalize_name(arg) returns
CallNormalize ==
    /\ pc = "call"
    /\ ret' = NormalizeName(arg)
    /\ pc' = "normalized"
    /\ UNCHANGED << tree, todo, buckets, result, filterIn, existing,
                    rootKind, firstScan, duplicates, subdirs, removed, arg >>
    /\ UNCHANGED jobVars

SpecStems == InitStems /\ [][CallNormalize]_vars

\* Largest numbers of files of each sort in a titled directory: segments of
\* the root "clip", segments of the root "other", unsegmented files
MaxClipSegments == 7
MaxOtherSegments == 3
MaxPlainFiles == 3

Numerals == << "1", "2", "3", "4", "5", "6", "7", "8", "9" >>

\* A directory with a segments of "Clip", b of "other", u unsegmented media
\* files, e segments with an empty root, and a text file that is not media
DirOf(a, b, u, e) ==
    { F(".", "Clip_" \o Numerals[i] \o ".mp4") : i \in 1..a }
      \cup { F(".", "other (" \o Numerals[i] \o ").gif") : i \in 1..b }
      \cup { F(".", "plain" \o Numerals[i] \o "x.png") : i \in 1..u }
      \cup { F(".", "part" \o Numerals[i] \o ".mp4") : i \in 1..e }
      \cup { F(".", "Clip_9.txt") }

\* The names of the directories a title is suggested for
DirNames == { "clips", "Show_segments" }

InitTitle ==
    /\ arg \in DirNames
    /\ tree \in { DirOf(a, b, u, e) : a \in 0..MaxClipSegments, b \in 0..MaxOtherSegments,
                                      u \in 0..MaxPlainFiles, e \in {0, 2} }
    /\ todo = {}
    /\ buckets = << >>
    /\ pc = "call"
    /\ result = EmptyResult
    /\ filterIn = EmptyResult
    /\ existing = {}
    /\ rootKind = "dir"
    /\ firstScan = << >>
    /\ duplicates = << >>
    /\ subdirs = << >>
    /\ removed = {}
    /\ ret = None
    /\ InitExt

\* suggest_thread_title_for_subdir returns for the directory named arg that
\* holds the files of tree
CallSuggestTitle ==
    /\ pc = "call"
    /\ ret' = SuggestThreadTitle(arg, tree)
    /\ pc' = "titled"
    /\ UNCHANGED << tree, todo, buckets, result, filterIn, existing,
                    rootKind, firstScan, duplicates, subdirs, removed, arg >>
    /\ UNCHANGED jobVars

SpecTitle == InitTitle /\ [][CallSuggestTitle]_vars

\* ------------------------------------------------------------------------
\* send_media_job: destination, relay, remote duplicates, dry run
\* ------------------------------------------------------------------------
\* The variables of a scan and of a filter call
scanVars == << tree, todo, buckets, result, filterIn, existing >>

\* No function of the scanner is running
NoCall ==
    /\ tree = {}
    /\ todo = {}
    /\ buckets = << >>
    /\ result = EmptyResult
    /\ filterIn = EmptyResult
    /\ existing = {}
    /\ rootKind = "dir"
    /\ firstScan = << >>
    /\ duplicates = << >>
    /\ subdirs = << >>
    /\ removed = {}
    /\ arg = ""
    /\ ret = None

\* Largest number of media items in the relay source, of removable duplicate
\* messages in the destination, and of planned messages
MaxRelayItems == 2
MaxDupeMessages == 1
MaxPlanned == 1

\* The requests of DiscordClient that change the remote platform
MutatingOps == { "start_forum_post", "send_message_with_files",
                 "send_text_message", "delete_message" }

\* n requests op, one after the other
Requests(op, n) == [i \in 1..n |-> op]

\* send_media_job is called: its arguments and what the remote will answer
InitPlan ==
    /\ NoCall
    /\ pc = "job"
    /\ job \in [ dry_run : BOOLEAN,
                 is_forum_like : BOOLEAN,
                 thread_id : BOOLEAN,
                 existing_id : BOOLEAN,
                 relay_from : BOOLEAN,
                 source_items : 0..MaxRelayItems,
                 dupe_messages : 0..MaxDupeMessages,
                 confirm_dupe_removal : BOOLEAN,
                 planned : 0..MaxPlanned,
                 outcome : {""} ]
    /\ channel = << >>
    /\ threads = << >>
    /\ store = << >>
    /\ fetch = << >>

\* The destination: a forum-like channel without a thread id gets a thread,
\* an existing one or a new one, unless the run is a dry run
PrepareDestination ==
    /\ pc = "job"
    /\ channel' = IF job.is_forum_like /\ ~job.thread_id /\ ~job.dry_run /\ ~job.existing_id
                  THEN Append(channel, "start_forum_post")
                  ELSE channel
    /\ pc' = "dest"
    /\ UNCHANGED << scanVars, aux, job, threads, store, fetch >>

\* "if relay_from:": relay_media downloads every media item of the source and
\* uploads it to the destination, and the job returns
RelayMedia ==
    /\ pc = "dest"
    /\ job.relay_from
    /\ channel' = channel \o Requests("send_message_with_files", job.source_items)
    /\ job' = [job EXCEPT !.outcome = "Relayed"]
    /\ pc' = "done"
    /\ UNCHANGED << scanVars, aux, threads, store, fetch >>

\* Without relay_from: scan, dedupe, and when the remote duplicate report has
\* groups and the caller confirms, every message but the oldest of each group
\* is deleted
RemoveRemoteDupes ==
    /\ pc = "dest"
    /\ ~job.relay_from
    /\ channel' = IF job.dupe_messages > 0 /\ job.confirm_dupe_removal
                  THEN channel \o Requests("delete_message", job.dupe_messages)
                  ELSE channel
    /\ pc' = "planned"
    /\ UNCHANGED << scanVars, aux, job, threads, store, fetch >>

\* "if dry_run: return 'Dry run. Planned ...'"
DryRunReturn ==
    /\ pc = "planned"
    /\ job.dry_run
    /\ job' = [job EXCEPT !.outcome = "Dry run"]
    /\ pc' = "done"
    /\ UNCHANGED << scanVars, aux, channel, threads, store, fetch >>

\* Otherwise every planned message is uploaded
UploadPlanned ==
    /\ pc = "planned"
    /\ ~job.dry_run
    /\ channel' = channel \o Requests("send_message_with_files", job.planned)
    /\ job' = [job EXCEPT !.outcome = "Done"]
    /\ pc' = "done"
    /\ UNCHANGED << scanVars, aux, threads, store, fetch >>

NextPlan ==
    \/ PrepareDestination
    \/ RelayMedia
    \/ RemoveRemoteDupes
    \/ DryRunReturn
    \/ UploadPlanned

SpecPlan == InitPlan /\ [][NextPlan]_vars

\* ------------------------------------------------------------------------
\* send_media_job: the items list and the segmented groups
\* ------------------------------------------------------------------------
\* One item per pair, then one per single (every media type selected, no
\* file over the size limit)
Items(R) ==
    [ i \in 1..Len(R.pairs) |->
        [root_key |-> R.pairs[i].root_key,
         files |-> << R.pairs[i].mp4_path, R.pairs[i].gif_path >>] ]
    \o
    [ i \in 1..Len(R.singles) |->
        [root_key |-> R.singles[i].root_key, files |-> << R.singles[i].path >>] ]

\* counts = Counter(rk for rk, _files in items)
Counts(items, rk) == Cardinality({ i \in 1..Len(items) : items[i].root_key = rk })

\* segmented_keys
SegmentedKeys(items, ignore_segmentation) ==
    IF ignore_segmentation THEN {}
    ELSE { items[i].root_key : i \in { j \in 1..Len(items) : Counts(items, items[j].root_key) > 1 } }

\* The files the input directory of a segmented upload is drawn from
SegFiles ==
    { F(".", "video.mp4"), F(".", "video.png"), F(".", "a.mp4"),
      F(".", "a_1.mp4"), F(".", "a_2.mp4"), F(".", "a_1.gif") }

InitItems ==
    /\ tree \in SUBSET SegFiles
    /\ todo = tree
    /\ buckets = << >>
    /\ pc = "scan"
    /\ result = EmptyResult
    /\ filterIn = EmptyResult
    /\ existing = {}
    /\ rootKind = "dir"
    /\ firstScan = << >>
    /\ duplicates = << >>
    /\ subdirs = << >>
    /\ removed = {}
    /\ arg = ""
    /\ ret = None
    /\ job \in [ ignore_segmentation : BOOLEAN, items : {<< >>}, segmented_keys : {{}} ]
    /\ channel = << >>
    /\ threads = << >>
    /\ store = << >>
    /\ fetch = << >>

\* The items list is built from the scan and the segmented groups are
\* determined
BuildItems ==
    /\ pc = "scanned"
    /\ \E items \in { Items(result) } :
         job' = [job EXCEPT !.items = items,
                            !.segmented_keys = SegmentedKeys(items, job.ignore_segmentation)]
    /\ pc' = "items"
    /\ UNCHANGED << scanVars, aux, channel, threads, store, fetch >>

NextItems ==
    \/ \E p \in todo : ScanVisit(p)
    \/ ScanEmit
    \/ BuildItems

SpecItems == InitItems /\ [][NextItems]_vars

\* ------------------------------------------------------------------------
\* send_media_job: the uploads
\* ------------------------------------------------------------------------
\* MAX_ATTACHMENTS
MAX_ATTACHMENTS == 10

\* The default of separator_text
SeparatorText == "----------------------------------------"

\* What send_message_with_files and send_text_message leave in the channel
FileMessage(files) == [content |-> "", files |-> files]
TextMessage(text) == [content |-> text, files |-> << >>]

\* client.get_last_message_content: the content of the most recent message of
\* the channel, as a set: empty when the channel has no message
GetLastMessageContent(ch) == IF ch = << >> THEN {} ELSE { ch[Len(ch)].content }

\* client.send_text_message
SendTextMessage(ch, text) == Append(ch, TextMessage(text))

\* "last = client.get_last_message_content(...); if last != separator_text:
\* client.send_text_message(...)"
SendSeparator(ch) ==
    IF GetLastMessageContent(ch) # { SeparatorText }
    THEN SendTextMessage(ch, SeparatorText)
    ELSE ch

\* send_message_with_files that returns ("ok") puts one message in the
\* channel; one that raises puts none
SendFiles(ch, files, outcome) ==
    IF outcome = "ok" THEN Append(ch, FileMessage(files)) ELSE ch

\* max(0, remaining_segments.get(rk, 0) - 1)
DecrementRemaining(n) == IF n - 1 < 0 THEN 0 ELSE n - 1

\* The test before the extend left out: the pending files are never sent
\* ahead of an item that does not fit
MustFlushFirst_Never(current, files) == FALSE

\* The test before the extend
MustFlushFirst(current, files) ==
    current # << >> /\ Len(current) + Len(files) > MAX_ATTACHMENTS

\* The test after the extend: "len(pending) >= MAX_ATTACHMENTS or remaining == 0"
MustFlush(pending, remaining) == Len(pending) >= MAX_ATTACHMENTS \/ remaining = 0

\* Largest number of items of a mixed items list, number of items of a long
\* group, largest number of queued tasks and of workers, and largest number
\* of uploads that fail in one run
MaxItems == 3
MaxGroup == 6
MaxTasks == 3
MaxWorkers == 2
MaxFailures == 1

\* The root keys of the items, in the order of the scan
ItemKeys == << "./a", "./b" >>
TaskKeys == << "./a", "./b", "./c", "./d", "./e" >>

\* Item number i of a list: n files under the root key rk
Item(i, rk, n) == [root_key |-> rk, files |-> [j \in 1..n |-> << i, j >>]]

\* A part of an items list: the sizes sz of its items, the first na of them
\* under the first root key and the others under the second, numbered from
\* base + 1
ItemsPart(sz, na, base) ==
    [ i \in 1..Len(sz) |-> Item(base + i, ItemKeys[IF i <= na THEN 1 ELSE 2], sz[i]) ]

SizeSeqs(n, sizes) == [1..n -> sizes]

\* The items lists of at most n items: the items of the pairs (two files, or
\* one when the other is not selected or too large) in the order of their
\* keys, then the items of the singles in the order of their keys
MixedItemLists(n) ==
    { ItemsPart(p, pa, 0) \o ItemsPart(s, sa, Len(p)) :
        << p, pa, s, sa >> \in
          { x \in UNION { SizeSeqs(k, {1, 2}) \X (0..k) \X SizeSeqs(m, {1}) \X (0..m) :
                          << k, m >> \in { y \in (0..n) \X (0..n) : y[1] + y[2] <= n } } : TRUE } }

\* The items lists of one group of n pairs
GroupItemLists(n) == { ItemsPart(p, n, 0) : p \in SizeSeqs(n, {1, 2}) }

\* The items lists of n items with n root keys: a pair, a single, a pair, ...
TaskItemList(n) == [ i \in 1..n |-> Item(i, TaskKeys[i], 1 + (i % 2)) ]

\* The locals of send_media_job when the items list is built
UploadJob(items, seps, conc) ==
    LET keys == SegmentedKeys(items, FALSE)
    IN  [ items |-> items,
          segment_separators |-> seps,
          concurrency |-> conc,
          segmented_keys |-> keys,
          i |-> 1,
          step |-> "item",
          started_group |-> {},
          pending_for_key |-> [rk \in keys |-> << >>],
          remaining_segments |-> [rk \in keys |-> Counts(items, rk)],
          sent_count |-> 0,
          failures |-> 0,
          q |-> << >>,
          lock |-> 0,
          stop_all |-> FALSE,
          worker_errors |-> 0,
          outcome |-> "" ]

InitUpload ==
    /\ NoCall
    /\ pc = "upload"
    /\ job \in { UploadJob(items, TRUE, 1) :
                   items \in MixedItemLists(MaxItems) \cup GroupItemLists(MaxGroup) }
          \cup { UploadJob(TaskItemList(n), FALSE, conc) :
                   n \in 0..MaxTasks, conc \in 0..MaxWorkers }
    /\ channel = << >>
    /\ threads = << >>
    /\ store = << >>
    /\ fetch = << >>

\* "if segment_separators and segmented_keys:"
SegmentedPath == job.segment_separators /\ job.segmented_keys # {}

\* What a call of send_message_with_files can do: return, raise an error that
\* is logged, or raise DiscordAuthError
SendOutcomes == IF job.failures < MaxFailures THEN { "ok", "error", "auth" } ELSE { "ok" }

Failed(outcome) == IF outcome = "ok" THEN 0 ELSE 1

\* The item the loop is at, and its root key
AtItem == job.i <= Len(job.items)
CurItem == job.items[job.i]

Aborted == "Aborted: authentication failed (401/403)"

\* The loop moves to the next item
NextItemOf(j) == [j EXCEPT !.i = j.i + 1, !.step = "item"]

\* The job returns after a DiscordAuthError
AbortedJob(j) == [j EXCEPT !.outcome = Aborted, !.failures = j.failures + 1]

\* "if rk not in started_group:" the leading separator, once per group
LeadingSeparator ==
    /\ pc = "upload" /\ SegmentedPath /\ job.step = "item" /\ AtItem
    /\ CurItem.root_key \in job.segmented_keys
    /\ CurItem.root_key \notin job.started_group
    /\ channel' = SendSeparator(channel)
    /\ job' = [job EXCEPT !.started_group = job.started_group \cup { CurItem.root_key }]
    /\ UNCHANGED << scanVars, aux, pc, threads, store, fetch >>

\* The files of the item join the pending files of the group, which are sent
\* first when the item does not fit
AddSegment(outcome) ==
    /\ pc = "upload" /\ SegmentedPath /\ job.step = "item" /\ AtItem
    /\ CurItem.root_key \in job.started_group
    /\ LET rk == CurItem.root_key
           current == job.pending_for_key[rk]
           first == MustFlushFirst(current, CurItem.files)
           pending == (IF first THEN << >> ELSE current) \o CurItem.files
           remaining == DecrementRemaining(job.remaining_segments[rk])
       IN  /\ ~first => outcome = "ok"
           /\ channel' = IF first THEN SendFiles(channel, current, outcome) ELSE channel
           /\ IF first /\ outcome = "auth"
              THEN /\ job' = AbortedJob(job)
                   /\ pc' = "done"
              ELSE /\ job' = [job EXCEPT
                        !.sent_count = IF first /\ outcome = "ok" THEN @ + Len(current) ELSE @,
                        !.failures = @ + Failed(outcome),
                        !.pending_for_key[rk] = pending,
                        !.remaining_segments[rk] = remaining,
                        !.step = IF MustFlush(pending, remaining) THEN "flush" ELSE "item",
                        !.i = IF MustFlush(pending, remaining) THEN @ ELSE @ + 1]
                   /\ pc' = pc
    /\ UNCHANGED << scanVars, aux, threads, store, fetch >>

\* _flush(rk) after the extend: the pending files of the group are sent
FlushGroup(outcome) ==
    /\ pc = "upload" /\ job.step = "flush"
    /\ LET rk == CurItem.root_key
           pending == job.pending_for_key[rk]
       IN  /\ channel' = SendFiles(channel, pending, outcome)
           /\ IF outcome = "auth"
              THEN /\ job' = AbortedJob(job)
                   /\ pc' = "done"
              ELSE /\ job' = [job EXCEPT
                        !.sent_count = IF outcome = "ok" THEN @ + Len(pending) ELSE @,
                        !.failures = @ + Failed(outcome),
                        !.pending_for_key[rk] = << >>,
                        !.step = IF job.remaining_segments[rk] = 0 THEN "trail" ELSE "item",
                        !.i = IF job.remaining_segments[rk] = 0 THEN @ ELSE @ + 1]
                   /\ pc' = pc
    /\ UNCHANGED << scanVars, aux, threads, store, fetch >>

\* The trailing separator after the last segment of the group
TrailingSeparator ==
    /\ pc = "upload" /\ job.step = "trail"
    /\ channel' = SendSeparator(channel)
    /\ job' = NextItemOf(job)
    /\ UNCHANGED << scanVars, aux, pc, threads, store, fetch >>

\* An item of no segmented group is sent as it is
SendItem(outcome) ==
    /\ pc = "upload" /\ SegmentedPath /\ job.step = "item" /\ AtItem
    /\ CurItem.root_key \notin job.segmented_keys
    /\ channel' = SendFiles(channel, CurItem.files, outcome)
    /\ IF outcome = "auth"
       THEN /\ job' = AbortedJob(job)
            /\ pc' = "done"
       ELSE /\ job' = [NextItemOf(job) EXCEPT
                        !.sent_count = IF outcome = "ok" THEN @ + Len(CurItem.files) ELSE @,
                        !.failures = @ + Failed(outcome)]
            /\ pc' = pc
    /\ UNCHANGED << scanVars, aux, threads, store, fetch >>

\* The loop is over: "return f'Done. Sent {sent_count} file(s).'"
FinishSegmented ==
    /\ pc = "upload" /\ SegmentedPath /\ job.step = "item" /\ ~AtItem
    /\ job' = [job EXCEPT !.outcome = "Done"]
    /\ pc' = "done"
    /\ UNCHANGED << scanVars, aux, channel, threads, store, fetch >>

NextSegmented ==
    \/ LeadingSeparator
    \/ \E outcome \in SendOutcomes : AddSegment(outcome)
    \/ \E outcome \in SendOutcomes : FlushGroup(outcome)
    \/ TrailingSeparator
    \/ \E outcome \in SendOutcomes : SendItem(outcome)
    \/ FinishSegmented

\* "with lock:" can be entered
LockFree_Always(l) == TRUE

LockFree(l) == l = 0

\* The workers that have returned or raised
Finished == { w \in DOMAIN threads : threads[w].pc = "done" }

\* Otherwise every item is queued and max(1, concurrency) workers are started
StartWorkers ==
    /\ pc = "upload" /\ ~SegmentedPath /\ job.step = "item"
    /\ job' = [job EXCEPT !.q = [i \in 1..Len(job.items) |-> job.items[i].files],
                          !.step = "join"]
    /\ threads' = [ w \in 1..(IF job.concurrency < 1 THEN 1 ELSE job.concurrency) |->
                      [pc |-> "check", files |-> << >>, read |-> 0] ]
    /\ UNCHANGED << scanVars, aux, pc, channel, store, fetch >>

\* "if _should_cancel() or stop_all.is_set(): break"
WorkerCheck(w) ==
    /\ threads[w].pc = "check"
    /\ threads' = [threads EXCEPT ![w].pc = IF job.stop_all THEN "done" ELSE "get"]
    /\ UNCHANGED << scanVars, aux, pc, job, channel, store, fetch >>

\* "files = q.get_nowait()", "except Empty: break"
WorkerGet(w) ==
    /\ threads[w].pc = "get"
    /\ IF job.q = << >>
       THEN /\ threads' = [threads EXCEPT ![w].pc = "done"]
            /\ job' = job
       ELSE /\ threads' = [threads EXCEPT ![w].pc = "send", ![w].files = Head(job.q)]
            /\ job' = [job EXCEPT !.q = Tail(job.q)]
    /\ UNCHANGED << scanVars, aux, pc, channel, store, fetch >>

\* client.send_message_with_files(files): on DiscordAuthError stop_all is set
\* and the error leaves the worker; any other error is logged
WorkerSend(w, outcome) ==
    /\ threads[w].pc = "send"
    /\ channel' = SendFiles(channel, threads[w].files, outcome)
    /\ threads' = [threads EXCEPT ![w].pc = CASE outcome = "ok" -> "lock"
                                              [] outcome = "error" -> "check"
                                              [] outcome = "auth" -> "done"]
    /\ job' = [job EXCEPT !.failures = @ + Failed(outcome),
                          !.stop_all = @ \/ outcome = "auth",
                          !.worker_errors = @ + (IF outcome = "auth" THEN 1 ELSE 0)]
    /\ UNCHANGED << scanVars, aux, pc, store, fetch >>

\* "with lock:" is entered and sent_count is read
WorkerLock(w) ==
    /\ threads[w].pc = "lock"
    /\ LockFree(job.lock)
    /\ job' = [job EXCEPT !.lock = w]
    /\ threads' = [threads EXCEPT ![w].pc = "add", ![w].read = job.sent_count]
    /\ UNCHANGED << scanVars, aux, pc, channel, store, fetch >>

\* sent_count is written and the lock is released
WorkerAdd(w) ==
    /\ threads[w].pc = "add"
    /\ job' = [job EXCEPT !.sent_count = threads[w].read + Len(threads[w].files),
                          !.lock = 0]
    /\ threads' = [threads EXCEPT ![w].pc = "check"]
    /\ UNCHANGED << scanVars, aux, pc, channel, store, fetch >>

\* Every thread is joined and the job returns
JoinWorkers ==
    /\ pc = "upload" /\ job.step = "join"
    /\ Finished = DOMAIN threads
    /\ job' = [job EXCEPT !.outcome = IF job.worker_errors > 0 THEN Aborted ELSE "Done"]
    /\ pc' = "done"
    /\ UNCHANGED << scanVars, aux, channel, threads, store, fetch >>

NextWorkers ==
    \/ StartWorkers
    \/ \E w \in DOMAIN threads : WorkerCheck(w)
    \/ \E w \in DOMAIN threads : WorkerGet(w)
    \/ \E w \in DOMAIN threads : \E outcome \in SendOutcomes : WorkerSend(w, outcome)
    \/ \E w \in DOMAIN threads : WorkerLock(w)
    \/ \E w \in DOMAIN threads : WorkerAdd(w)
    \/ JoinWorkers

NextUpload == NextSegmented \/ NextWorkers

SpecUpload == InitUpload /\ [][NextUpload]_vars

\* The main thread and every started worker are scheduled until they return
SpecUploadFair == SpecUpload /\ WF_vars(NextUpload)

\* ------------------------------------------------------------------------
\* DiscordClient.fetch_existing_filenames
\* ------------------------------------------------------------------------
\* params = {"limit": 100}
PageLimit == 100

\* Largest max_messages, and the values of max_messages that are tried
MaxHistoryLimit == 200
HistoryLimits == { 0, 1, 50, PageLimit, PageLimit + 50, MaxHistoryLimit }

\* The messages of the channel are numbered from the latest, 1, backwards, and
\* message k has one attachment, named k. A page of n messages after "before
\* last_id" holds the n messages that follow last_id.
Page(last_id, n) == (last_id + 1)..(last_id + n)

InitFetch ==
    /\ NoCall
    /\ pc = "fetch"
    /\ fetch \in [ max_messages : HistoryLimits, fetched : {0}, last_id : {0}, existing : {{}} ]
    /\ job = << >>
    /\ channel = << >>
    /\ threads = << >>
    /\ store = << >>

\* One turn of "while fetched < max_messages:" in which the request returns
\* a page of n messages; an empty page ends the loop
FetchPage(n) ==
    /\ pc = "fetch"
    /\ fetch.fetched < fetch.max_messages
    /\ IF n = 0
       THEN /\ pc' = "fetched"
            /\ fetch' = fetch
       ELSE /\ pc' = pc
            /\ fetch' = [fetch EXCEPT !.existing = @ \cup Page(fetch.last_id, n),
                                      !.fetched = @ + n,
                                      !.last_id = @ + n]
    /\ UNCHANGED << scanVars, aux, job, channel, threads, store >>

\* The request fails after its retries: "if resp is None: break"
FetchFailed ==
    /\ pc = "fetch"
    /\ fetch.fetched < fetch.max_messages
    /\ pc' = "fetched"
    /\ UNCHANGED << scanVars, aux, jobVars >>

\* The loop test fails: "return existing"
FetchReturn ==
    /\ pc = "fetch"
    /\ fetch.fetched >= fetch.max_messages
    /\ pc' = "fetched"
    /\ UNCHANGED << scanVars, aux, jobVars >>

NextFetch ==
    \/ \E n \in 0..PageLimit : FetchPage(n)
    \/ FetchFailed
    \/ FetchReturn

SpecFetch == InitFetch /\ [][NextFetch]_vars

\* ------------------------------------------------------------------------
\* DedupeStore
\* ------------------------------------------------------------------------
\* Largest number of threads that call the store at the same time
MaxThreads == 2

\* The channel ids, the name arguments of add_names_for and the contents of
\* dedupe.json when the store is constructed
StoreIds == { "1", "2" }
NameArgs == { { "A.mp4" }, { "b.gif", "" }, { "" } }
RawFiles == { << >>, [k \in { "1" } |-> { "Old.MP4" }] }

\* {str(n).lower() for n in names}
LowerNames(names) == { Lower(n) : n \in names }

\* {str(n).lower() for n in names if n}
AddedNames(names) == { Lower(n) : n \in { m \in names : m # "" } }

\* _load: the names of every key lowercased, keys without names left out
Load(raw) ==
    [ k \in { x \in DOMAIN raw : raw[x] # {} } |-> LowerNames(raw[k]) ]

\* "with self._lock:" can be entered, and the same without a lock
Acquirable_Always(lock) == TRUE

Acquirable(lock) == lock = 0

\* The calls one thread makes
StoreCalls ==
    { [op |-> "add", key |-> k, names |-> N, pc |-> "call", current |-> 0, ret |-> 0] :
        k \in StoreIds, N \in NameArgs }
    \cup
    { [op |-> "get", key |-> k, names |-> {}, pc |-> "call", current |-> 0, ret |-> 0] :
        k \in StoreIds }

\* The set objects of the interpreter are numbered; _data maps a key to the
\* number of its set. The store after __init__ on the file raw:
NewStore(raw) ==
    LET data == Load(raw)
        keys == IF "1" \in DOMAIN data THEN << "1" >> ELSE << >>
    IN  [ lock |-> 0,
          data |-> [k \in DOMAIN data |-> 1],
          heap |-> [i \in 1..Len(keys) |-> data[keys[i]]],
          file |-> raw,
          loaded |-> data ]

InitStore ==
    /\ NoCall
    /\ pc = "store"
    /\ store \in { NewStore(raw) : raw \in RawFiles }
    /\ threads \in UNION { [1..n -> StoreCalls] : n \in 1..MaxThreads }
    /\ job = << >>
    /\ channel = << >>
    /\ fetch = << >>

\* add_names_for up to the lock: nothing to add returns at once
AddCall(t) ==
    /\ threads[t].op = "add" /\ threads[t].pc = "call"
    /\ threads' = [threads EXCEPT ![t].pc = IF AddedNames(threads[t].names) = {}
                                           THEN "done" ELSE "lock"]
    /\ UNCHANGED << scanVars, aux, pc, job, channel, store, fetch >>

\* "with self._lock: current = self._data.get(key)"
AddLock(t) ==
    /\ threads[t].op = "add" /\ threads[t].pc = "lock"
    /\ Acquirable(store.lock)
    /\ store' = [store EXCEPT !.lock = t]
    /\ threads' = [threads EXCEPT ![t].pc = "update",
                     ![t].current = IF threads[t].key \in DOMAIN store.data
                                    THEN store.data[threads[t].key] ELSE 0]
    /\ UNCHANGED << scanVars, aux, pc, job, channel, fetch >>

\* A new set for the key or current.update(names_l), then _save(), which
\* writes the file or fails silently, and the lock is released
AddUpdate(t, saved) ==
    /\ threads[t].op = "add" /\ threads[t].pc = "update"
    /\ LET names_l == AddedNames(threads[t].names)
           key == threads[t].key
           current == threads[t].current
           heap == IF current = 0 THEN Append(store.heap, names_l)
                   ELSE [store.heap EXCEPT ![current] = @ \cup names_l]
           data == IF current = 0
                   THEN [k \in DOMAIN store.data \cup { key } |->
                           IF k = key THEN Len(heap) ELSE store.data[k]]
                   ELSE store.data
       IN  store' = [store EXCEPT
                       !.heap = heap,
                       !.data = data,
                       !.file = IF saved THEN [k \in DOMAIN data |-> heap[data[k]]] ELSE @,
                       !.lock = 0]
    /\ threads' = [threads EXCEPT ![t].pc = "done"]
    /\ UNCHANGED << scanVars, aux, pc, job, channel, fetch >>

\* get_names_for: under the lock, a new set with the names of the key
GetNames(t) ==
    /\ threads[t].op = "get" /\ threads[t].pc = "call"
    /\ Acquirable(store.lock)
    /\ store' = [store EXCEPT !.heap = Append(@,
                    IF threads[t].key \in DOMAIN store.data
                    THEN store.heap[store.data[threads[t].key]] ELSE {})]
    /\ threads' = [threads EXCEPT ![t].pc = "got", ![t].ret = Len(store.heap) + 1]
    /\ UNCHANGED << scanVars, aux, pc, job, channel, fetch >>

\* The caller adds a name to the set it got
MutateReturned(t) ==
    /\ threads[t].op = "get" /\ threads[t].pc = "got"
    /\ store' = [store EXCEPT !.heap[threads[t].ret] = @ \cup { "Mine.mp4" }]
    /\ threads' = [threads EXCEPT ![t].pc = "done"]
    /\ UNCHANGED << scanVars, aux, pc, job, channel, fetch >>

NextStore ==
    \/ \E t \in DOMAIN threads : AddCall(t)
    \/ \E t \in DOMAIN threads : AddLock(t)
    \/ \E t \in DOMAIN threads : \E saved \in BOOLEAN : AddUpdate(t, saved)
    \/ \E t \in DOMAIN threads : GetNames(t)
    \/ \E t \in DOMAIN threads : MutateReturned(t)

SpecStore == InitStore /\ [][NextStore]_vars

\* ------------------------------------------------------------------------
\* Properties
\* ------------------------------------------------------------------------

Range(seq) == { seq[i] : i \in 1..Len(seq) }

\* Number of positions of seq that hold x
Count(seq, x) == Cardinality({ i \in 1..Len(seq) : seq[i] = x })

\* The variant sets of the names of the last filter call's catalog, united
CatalogVariants == UNION { Variants(n) : n \in existing }

\* The name matches a remote catalog with united variant sets CV: its variant
\* set intersects CV.
Matched(name, CV) == Variants(name) \cap CV # {}

Filtered == pc \in {"filtered", "refiltered"}

\* The result scan_media returned for the tree
ScanOutput ==
    LET keys == SortedKeys(DOMAIN buckets)
    IN  [pairs |-> EmitPairs(keys, buckets), singles |-> EmitSingles(keys, buckets)]

\* Exactly one member of the pair matches the catalog
PartialPair(pair, CV) == Matched(pair.mp4_path.name, CV) # Matched(pair.gif_path.name, CV)

\* Both members of the pair match the catalog
MatchedPair(pair, CV) == Matched(pair.mp4_path.name, CV) /\ Matched(pair.gif_path.name, CV)

\* C1: a pair of which exactly one member matches the remote catalog is not
\* in the output pairs, and the output singles hold exactly one SingleItem
\* for its members: the unmatched member under the pair's root_key, once.
C1_PartialPairSplit ==
    Filtered =>
      \A CV \in { CatalogVariants } :
        \A pair \in Range(filterIn.pairs) :
          PartialPair(pair, CV) =>
            LET unmatched == IF Matched(pair.mp4_path.name, CV) THEN pair.gif_path
                             ELSE pair.mp4_path
            IN  /\ pair \notin Range(result.pairs)
                /\ Count(result.singles, [root_key |-> pair.root_key, path |-> unmatched]) = 1
                /\ Cardinality({ i \in 1..Len(result.singles) :
                                   result.singles[i].path \in {pair.mp4_path, pair.gif_path} }) = 1

\* Segment numbers of the media files of p's directory whose stem has the
\* lowercased root of p
DistinctSegments(p) ==
    LET r == Lower(NormalizeName(Stem(p.name)).root)
    IN  { NormalizeName(Stem(f.name)).seg :
            f \in { g \in tree : g.dir = p.dir /\ IsMedia(g)
                                  /\ NormalizeName(Stem(g.name)).seg # None
                                  /\ Lower(NormalizeName(Stem(g.name)).root) = r } }

\* C2: a file is in a bucket with a segment number only if its directory
\* holds two or more distinct segment numbers for its root; otherwise its
\* bucket is (directory, lowercased literal stem, None).
C2_SegmentedOnlyIfDistinct ==
  pc \in {"scan", "scanned"} =>
    \A k \in DOMAIN buckets :
      \A e \in Range(buckets[k]) :
        LET p == e.path
            n == NormalizeName(Stem(p.name))
        IN  /\ k[3] # None =>
                 /\ n.seg # None
                 /\ Cardinality(DistinctSegments(p)) >= 2
                 /\ k = << p.dir, Lower(n.root), n.seg >>
            /\ (n.seg = None \/ Cardinality(DistinctSegments(p)) < 2) =>
                 k = << p.dir, Lower(Stem(p.name)), None >>

\* No two media files of one directory have the same bucket key and the same
\* lowercased extension
NoCollision ==
    \A f, g \in { h \in tree : IsMedia(h) } :
      f # g => ~(/\ BucketKey(f, tree) = BucketKey(g, tree)
                 /\ Lower(Suffix(f.name)) = Lower(Suffix(g.name)))

\* C3: in a tree without collisions, every media file that is not the mp4 or
\* gif of an emitted pair is the path of exactly one SingleItem of the scan.
C3_EveryUnpairedFileIsSingle ==
    (pc = "scanned" /\ NoCollision) =>
      \A f \in { h \in tree : IsMedia(h) } :
        (\A pair \in Range(result.pairs) : f # pair.mp4_path /\ f # pair.gif_path) =>
          Cardinality({ i \in 1..Len(result.singles) : result.singles[i].path = f }) = 1

\* C4: filtering the output of a filter call against the same catalog leaves
\* pairs and singles as they are, order included.
C4_FilterIdempotent == pc = "refiltered" => result = filterIn

\* C4 witness: filtered twice, and the scan's result had a pair with exactly
\* one matching member
C4_Witness ==
    /\ pc = "refiltered"
    /\ \E pair \in Range(ScanOutput.pairs) : PartialPair(pair, CatalogVariants)
    /\ result.singles # << >>

\* C5: a filter call with an empty catalog returns the pairs and singles of
\* its input, element for element.
C5_EmptyCatalogNoOp == (pc = "filtered" /\ existing = {}) => result = filterIn

\* C5 witness: an empty catalog applied to a result with a pair and a single
C5_Witness ==
    /\ pc = "filtered"
    /\ existing = {}
    /\ filterIn.pairs # << >>
    /\ filterIn.singles # << >>

\* C6: the output singles start with exactly the input singles whose name
\* does not match, in input order and unchanged; whatever follows was
\* demoted from an input pair; a matching input single is not in the output.
C6_SinglesDroppedIffMatched ==
    Filtered =>
      \A CV \in { CatalogVariants } :
        LET Unmatched(s) == ~Matched(s.path.name, CV)
        IN  \A kept \in { SelectSeq(filterIn.singles, Unmatched) } :
              /\ Len(result.singles) >= Len(kept)
              /\ SubSeq(result.singles, 1, Len(kept)) = kept
              /\ \A i \in (Len(kept) + 1)..Len(result.singles) :
                    \E pair \in Range(filterIn.pairs) :
                       /\ result.singles[i].root_key = pair.root_key
                       /\ result.singles[i].path \in {pair.mp4_path, pair.gif_path}
              /\ \A s \in Range(filterIn.singles) :
                    s \in Range(result.singles) => s \in Range(kept)

\* C6 witness: one input single dropped through a variant that is not its
\* own lowercased name, another one kept
C6_Witness ==
    /\ pc = "filtered"
    /\ \E s \in Range(filterIn.singles) :
          /\ Matched(s.path.name, CatalogVariants)
          /\ Lower(s.path.name) \notin CatalogVariants
    /\ \E s \in Range(filterIn.singles) : ~Matched(s.path.name, CatalogVariants)

\* C7: an input pair is an output pair iff neither member matches, the output
\* has no other pair, and when both members match no output single carries
\* either member.
C7_PairKeptIffNeitherMatches ==
    Filtered =>
      \A CV \in { CatalogVariants } :
        /\ \A pair \in Range(filterIn.pairs) :
              /\ pair \in Range(result.pairs)
                   <=> (~Matched(pair.mp4_path.name, CV) /\ ~Matched(pair.gif_path.name, CV))
              /\ MatchedPair(pair, CV) =>
                   \A s \in Range(result.singles) :
                      s.path \notin {pair.mp4_path, pair.gif_path}
        /\ Range(result.pairs) \subseteq Range(filterIn.pairs)

\* C7 witness: of two input pairs one has both members matching and the
\* other is kept
C7_Witness ==
    /\ pc = "filtered"
    /\ \E pair \in Range(filterIn.pairs) : MatchedPair(pair, CatalogVariants)
    /\ result.pairs # << >>

\* C8: every pair of a scan has an mp4_path with extension .mp4 and a
\* gif_path with extension .gif (ignoring case), both files of the tree, of
\* one directory and of one bucket, and root_key is that bucket's
\* directory_key + "/" + lowercased root.
C8_PairCompleteness ==
    pc = "scanned" =>
      \A pair \in Range(result.pairs) :
        LET k == BucketKey(pair.mp4_path, tree)
        IN  /\ pair.mp4_path \in tree /\ pair.gif_path \in tree
            /\ Lower(Suffix(pair.mp4_path.name)) = ".mp4"
            /\ Lower(Suffix(pair.gif_path.name)) = ".gif"
            /\ pair.mp4_path.dir = pair.gif_path.dir
            /\ BucketKey(pair.gif_path, tree) = k
            /\ k[1] = pair.mp4_path.dir
            /\ pair.root_key = k[1] \o "/" \o k[2]

\* C8 witness: a scan emitted a pair from a bucket with a segment number and
\* a pair whose mp4 has an upper-case extension
C8_Witness ==
    /\ pc = "scanned"
    /\ \E pair \in Range(result.pairs) : BucketKey(pair.mp4_path, tree)[3] # None
    /\ \E pair \in Range(result.pairs) : Suffix(pair.mp4_path.name) = ".MP4"

\* C9: a file whose stem parses to no segment number is in bucket
\* (directory, lowercased stem, None), and no file the scan buckets with a
\* segment number is in a bucket with it; for a.mp4, a_1.mp4, a_2.mp4 the
\* buckets are (., a, None), (., a, 1) and (., a, 2), one file each.
C9_UnsegmentedKeptApart ==
    pc \in {"scan", "scanned"} =>
      /\ \A k \in DOMAIN buckets :
           \A e \in Range(buckets[k]) :
             NormalizeName(Stem(e.path.name)).seg = None =>
               /\ k = << e.path.dir, Lower(Stem(e.path.name)), None >>
               /\ \A o \in Range(buckets[k]) : ~ShouldCheckSegments(o.path, tree)
      /\ (pc = "scanned" /\ tree = { F(".", "a.mp4"), F(".", "a_1.mp4"), F(".", "a_2.mp4") }) =>
           /\ DOMAIN buckets = { << ".", "a", None >>, << ".", "a", 1 >>, << ".", "a", 2 >> }
           /\ buckets[<< ".", "a", None >>] = << [ext |-> ".mp4", path |-> F(".", "a.mp4")] >>
           /\ buckets[<< ".", "a", 1 >>] = << [ext |-> ".mp4", path |-> F(".", "a_1.mp4")] >>
           /\ buckets[<< ".", "a", 2 >>] = << [ext |-> ".mp4", path |-> F(".", "a_2.mp4")] >>

\* C9 witness: the scan of a.mp4, a_1.mp4, a_2.mp4 has returned
C9_Witness ==
    /\ pc = "scanned"
    /\ tree = { F(".", "a.mp4"), F(".", "a_1.mp4"), F(".", "a_2.mp4") }

\* The order of the claim on bucket keys: (directory_key, lowercased root,
\* segment is not None, segment or 0), compared component by component
KeyOrderLeq(k1, k2) ==
    \/ StrLess(k1[1], k2[1])
    \/ /\ k1[1] = k2[1]
       /\ \/ StrLess(k1[2], k2[2])
          \/ /\ k1[2] = k2[2]
             /\ \/ k1[3] = None
                \/ k1[3] # None /\ k2[3] # None /\ k1[3] <= k2[3]

\* C10: the pairs and the singles of a scan are each in non-decreasing order
\* of their bucket's key: by directory, then root, the unsegmented bucket
\* before the segmented ones, segments in ascending numeric order.
C10_ResultSorted ==
    pc = "scanned" =>
      /\ \A i, j \in 1..Len(result.pairs) :
            i < j => KeyOrderLeq(BucketKey(result.pairs[i].mp4_path, tree),
                                 BucketKey(result.pairs[j].mp4_path, tree))
      /\ \A i, j \in 1..Len(result.singles) :
            i < j => KeyOrderLeq(BucketKey(result.singles[i].path, tree),
                                 BucketKey(result.singles[j].path, tree))

\* C10 witness: a scan returned the singles of an unsegmented bucket and of
\* segments 2 and 10 of one root, next to a single of another root
C10_Witness ==
    /\ pc = "scanned"
    /\ tree = { F(".", "a.mp4"), F(".", "a_2.mp4"), F(".", "a_10.mp4"), F(".", "clip.png") }
    /\ Len(result.singles) = 4

\* Position of the key in the order in which scan_media walks the buckets
KeyPos(key) ==
    LET keys == SortedKeys(DOMAIN buckets)
    IN  The({ i \in 1..Len(keys) : keys[i] = key })

\* The scan of the scenario's five files has returned
E2EScanned == tree = E2EFiles /\ pc = "scanned"

\* What the scenario has in pairs and singles, whatever their order
E2EContents ==
    /\ result.pairs = << [root_key |-> "./video", mp4_path |-> F(".", "video.mp4"),
                          gif_path |-> F(".", "video.gif")] >>
    /\ Len(result.singles) = 3
    /\ Range(result.singles) =
           { [root_key |-> "./photo", path |-> F(".", "photo.png")],
             [root_key |-> "./clip", path |-> F(".", "clip_1.mp4")],
             [root_key |-> "./clip", path |-> F(".", "clip_2.mp4")] }

\* C11 as stated: the scenario's scan returns the video pair and the singles
\* photo.png, clip_1.mp4, clip_2.mp4, both clips under "./clip", with the clip
\* buckets sorted after video's bucket and clip_1 before clip_2.
C11_ClipsAfterVideo ==
    E2EScanned =>
        /\ E2EContents
        /\ KeyPos(<< ".", "video", None >>) < KeyPos(<< ".", "clip", 1 >>)
        /\ KeyPos(<< ".", "clip", 1 >>) < KeyPos(<< ".", "clip", 2 >>)

\* C11 amended: the same pair and singles, but the buckets sort by root first,
\* so the clip buckets come before photo's and video's: the singles are
\* clip_1.mp4, clip_2.mp4, photo.png in that order.
C11_ClipsBeforeVideo ==
    E2EScanned =>
        /\ E2EContents
        /\ KeyPos(<< ".", "clip", 1 >>) < KeyPos(<< ".", "clip", 2 >>)
        /\ KeyPos(<< ".", "clip", 2 >>) < KeyPos(<< ".", "photo", None >>)
        /\ KeyPos(<< ".", "photo", None >>) < KeyPos(<< ".", "video", None >>)
        /\ result.singles =
               << [root_key |-> "./clip", path |-> F(".", "clip_1.mp4")],
                  [root_key |-> "./clip", path |-> F(".", "clip_2.mp4")],
                  [root_key |-> "./photo", path |-> F(".", "photo.png")] >>

C11_Witness == E2EScanned /\ Len(result.singles) = 3 /\ Len(result.pairs) = 1

\* C12: scan_media is deterministic over a static tree: every scan of the
\* same files returns the ScanResult the earlier scans returned, same pairs,
\* same singles, same order, whatever order the traversal yields the files in.
C12_ScanDeterministic ==
    pc = "scanned" => \A i \in 1..Len(firstScan) : firstScan[i] = result

\* C13: scan_media on a path that does not exist or is not a directory ends
\* in an error; it never returns a ScanResult for such a path.
C13_BadRootNeverScanned ==
    rootKind # "dir" => pc # "scanned"

\* C14: the variant set is closed under the transforms: the variant set of
\* every variant of a name is a subset of the variant set of the name.
C14_VariantsClosed ==
    pc = "variants" => \A v \in ret : Variants(v) \subseteq ret

\* The remote spelling of a tagged name: spaces to underscores, brackets deleted
UnderscoredName(ws, tag, ext) == JoinWords(ws, "_") \o "_" \o tag \o ext

\* The tagged name with its trailing bracket tag removed
UntaggedName(ws, ext) == JoinWords(ws, " ") \o ext

\* filter_against_filenames judges the local name a duplicate of the remote one
DuplicateOf(local, remote) == Exists(local, ExistingVariants({remote}))

\* C15: the variant set of a local name "<words> [tag].<ext>" intersects the
\* variant set of its underscored remote spelling and of its untagged
\* spelling, and the filter judges it a duplicate of both; "My Clip [ab12].mp4"
\* is a duplicate of "My_Clip_ab12.mp4" and of "my clip.mp4".
C15_TaggedNameMatchesRemote ==
    pc = "variants" =>
        /\ \A ws \in WordSeqs, tag \in NameTags, ext \in NameExts :
              arg = TaggedName(ws, tag, ext) =>
                  /\ ret \cap Variants(UnderscoredName(ws, tag, ext)) # {}
                  /\ ret \cap Variants(UntaggedName(ws, ext)) # {}
                  /\ DuplicateOf(arg, UnderscoredName(ws, tag, ext))
                  /\ DuplicateOf(arg, UntaggedName(ws, ext))
        /\ arg = "My Clip [ab12].mp4" =>
              /\ ret \cap Variants("My_Clip_ab12.mp4") # {}
              /\ ret \cap Variants("my clip.mp4") # {}
              /\ DuplicateOf(arg, "My_Clip_ab12.mp4")
              /\ DuplicateOf(arg, "my clip.mp4")

C15_Witness ==
    /\ pc = "variants"
    /\ arg = "My Clip [ab12].mp4"
    /\ "my_clip_ab12.mp4" \in ret
    /\ "my clip.mp4" \in ret

\* The files a ScanResult holds
FilesOf(R) ==
    { R.pairs[i].mp4_path : i \in 1..Len(R.pairs) }
      \cup { R.pairs[i].gif_path : i \in 1..Len(R.pairs) }
      \cup { R.singles[i].path : i \in 1..Len(R.singles) }

\* C16: diagnostics and filtering never disagree: after the dedupe step of
\* send_media_job a local file name is in the duplicates list if and only if
\* the filter dropped the file.
C16_DuplicatesIffDropped ==
    pc = "deduped" =>
        \A f \in FilesOf(filterIn) :
            (f.name \in Range(duplicates)) <=> (f \notin FilesOf(result))

\* C17: the listed subfolders are in ascending order of their directory key,
\* whether their media form pairs or singles: A before B.
C17_SubdirsAscending ==
    pc = "listed" =>
        \A i, j \in 1..Len(subdirs) : i < j => StrLess(subdirs[i], subdirs[j])

\* The immediate subdirectories under which a recognized media file lies
MediaTopDirs == { DirPart(f.dir) : f \in { g \in tree : IsMedia(g) } } \ { "." }

\* C18: the listing has no duplicate, never holds the scan root, holds only
\* immediate children of root_dir that still exist, and over a static tree
\* holds an immediate subdirectory if and only if a recognized media file
\* lies under it at any depth.
C18_SubdirsExactlyMediaDirs ==
    pc = "listed" =>
        /\ \A i, j \in 1..Len(subdirs) : i # j => subdirs[i] # subdirs[j]
        /\ "." \notin Range(subdirs)
        /\ \A d \in Range(subdirs) : DirPart(d) = d
        /\ Range(subdirs) \subseteq TopDirs(tree) \ removed
        /\ removed = {} => Range(subdirs) = MediaTopDirs

C18_Witness ==
    /\ pc = "listed"
    /\ removed = {}
    /\ { F(".", "r.mp4"), F("A", "a.png"), F("A/sub", "n.mp4"), F("C", "notes.txt") } \subseteq tree
    /\ subdirs = << "A" >>

\* The stem the patterns are matched against: trimmed, trailing brackets stripped
StemForSeg == StripTrailingBrackets(StripChars(arg, WsChars))

\* The digits of the number the stem for matching ends with, bare or in
\* parentheses; "" when it ends with none
TrailingNumber ==
    LET s == StemForSeg
        n == Len(s)
    IN  IF n >= 1 /\ Ch(s, n) = ")"
        THEN LET nd == RunBefore(s, n - 1, DigitChars)
             IN  IF n - 1 - nd >= 1 /\ Ch(s, n - 1 - nd) = "(" THEN SubSeq(s, n - nd, n - 1) ELSE ""
        ELSE SubSeq(s, n - RunBefore(s, n, DigitChars) + 1, n)

\* The match of the first pattern, in priority order, that matches the stem
FirstMatching ==
    LET s == StemForSeg
    IN  IF MatchMarker(s).ok THEN MatchMarker(s)
        ELSE IF MatchParen(s).ok THEN MatchParen(s)
        ELSE MatchSuffix(s)

\* C19: the patterns are tried in the order marker, parenthesized counter,
\* bare suffix, each anchored to the whole bracket-stripped stem; a segment
\* returned is the number of the first pattern that matches, with its root
\* trimmed of '.', '-', '_' and whitespace: "clip_part_2" gives ("clip", 2)
\* and "video_1 [abcdef]" gives ("video", 1).
C19_FirstPatternWins ==
    pc = "normalized" =>
        /\ ret.seg # None =>
              /\ FirstMatching.ok
              /\ ret.seg = FirstMatching.num
              /\ ret.root = StripChars(FirstMatching.root, {" ", ".", "-", "_"})
              /\ ret.seg = ToInt(TrailingNumber)
        /\ (FirstMatching.ok /\ FirstMatching.num \in 1..999) => ret.seg = FirstMatching.num
        /\ arg = "clip_part_2" => ret = [root |-> "clip", seg |-> 2]
        /\ arg = "video_1 [abcdef]" => ret = [root |-> "video", seg |-> 1]

C19_Witness ==
    /\ pc = "normalized"
    /\ arg = "clip_part_2"
    /\ MatchMarker(StemForSeg).ok
    /\ MatchSuffix(StemForSeg).ok
    /\ ret.seg = 2

\* The returned segment is None or in 1..999, and a trailing number of 0 or
\* of more than three digits yields none
SegmentInRange ==
    /\ ret.seg = None \/ ret.seg \in 1..999
    /\ (TrailingNumber # "" /\ (ToInt(TrailingNumber) = 0 \/ Len(TrailingNumber) > 3))
          => ret.seg = None

\* C20 as stated: the segment is None or in 1..999, a trailing number of 0 or
\* of more than three digits yields no segment, and when the segment is None
\* the returned root is the input stem unchanged.
C20_NoSegmentRootIsInput ==
    pc = "normalized" =>
        /\ SegmentInRange
        /\ ret.seg = None => ret.root = arg

\* C20 amended: the same, but when the segment is None the returned root is
\* the input stem trimmed of surrounding whitespace (trailing bracket tokens
\* included), which is the input itself for a stem that is already trimmed.
C20_NoSegmentRootIsTrimmedInput ==
    pc = "normalized" =>
        /\ SegmentInRange
        /\ ret.seg = None => ret.root = StripChars(arg, WsChars)

C20_Witness ==
    /\ pc = "normalized"
    /\ arg = "clip_0 [abcdef]"
    /\ ret = [root |-> "clip_0 [abcdef]", seg |-> None]

\* The bases that account for at least 70% of the segmented stems
DominantBases(bases) ==
    { b \in { bases[f] : f \in DOMAIN bases } :
        10 * Cardinality({ f \in DOMAIN bases : bases[f] = b }) >= 7 * Cardinality(DOMAIN bases) }

\* At least 70% of the media stems of the directory carry a segment number
\* and one root accounts for at least 70% of those
ThresholdsMet(media, bases) ==
    /\ DOMAIN bases # {}
    /\ 10 * Cardinality(DOMAIN bases) >= 7 * Cardinality(media)
    /\ DominantBases(bases) # {}

C22_DryRunMutatesNothing ==
    job.dry_run => \A i \in 1..Len(channel) : channel[i] \notin MutatingOps

\* The buckets of the scan whose files make the root key rk
BucketsOf(rk) == { k \in DOMAIN buckets : k[1] \o "/" \o k[2] = rk }

\* C23: a root key is a segmented group only if the scan bucketed its files
\* with segment numbers: every bucket behind a key of segmented_keys carries a
\* segment number.
C23_SegmentedKeysAreSegmented ==
    pc = "items" =>
        \A rk \in job.segmented_keys : \A k \in BucketsOf(rk) : k[3] # None

\* The root key of the files of a message, and the positions in the channel
\* of the file messages of the group rk
MessageKey(m) == job.items[m.files[1][1]].root_key
GroupMessages(rk) ==
    { k \in 1..Len(channel) : channel[k].files # << >> /\ MessageKey(channel[k]) = rk }

\* The run took the segmented path and ended with no failure
SegmentedDone ==
    pc = "done" /\ SegmentedPath /\ job.outcome = "Done" /\ job.failures = 0

\* C24: with no failure, the separator text is the message just before the
\* first file message of every segmented group and just after its last one,
\* and every message between the two is a file message of that group.
C24_SeparatorsEncloseGroup ==
    SegmentedDone =>
        \A rk \in job.segmented_keys :
            \E first \in GroupMessages(rk), last \in GroupMessages(rk) :
                /\ \A k \in GroupMessages(rk) : first <= k /\ k <= last
                /\ first > 1 /\ channel[first - 1].content = SeparatorText
                /\ last < Len(channel) /\ channel[last + 1].content = SeparatorText
                /\ \A k \in first..last : k \in GroupMessages(rk)

RECURSIVE TotalFiles(_)
TotalFiles(items) ==
    IF items = << >> THEN 0 ELSE Len(Head(items).files) + TotalFiles(Tail(items))

\* How often the file f was passed to a send_message_with_files call that
\* returned
TimesSent(f) ==
    Cardinality({ x \in (1..Len(channel)) \X (1..2 * MAX_ATTACHMENTS) :
                    x[2] <= Len(channel[x[1]].files) /\ channel[x[1]].files[x[2]] = f })

\* C26: with no failed upload the job terminates, every file of every planned
\* item has been sent exactly once, on the segmented path and on the worker
\* path with any number of workers, and sent_count is the number of planned
\* files.
C26_EveryFileSentOnce ==
    /\ <>(pc = "done")
    /\ [](pc = "done" /\ job.failures = 0 =>
            /\ job.outcome = "Done"
            /\ job.sent_count = TotalFiles(job.items)
            /\ \A i \in 1..Len(job.items) : \A j \in 1..Len(job.items[i].files) :
                   TimesSent(job.items[i].files[j]) = 1)

C26_Witness ==
    /\ pc = "done" /\ job.failures = 0
    /\ Len(threads) = 2 /\ Len(job.items) = 3
    /\ job.sent_count = 5

\* C29: on the segmented path no call of send_message_with_files carries more
\* than 10 files: the pending files of a group, which are what _flush sends,
\* and the files of every message sent are at most MAX_ATTACHMENTS.
C29_AtMostTenFilesPerSend ==
    (pc \in { "upload", "done" } /\ SegmentedPath) =>
        /\ \A rk \in job.segmented_keys : Len(job.pending_for_key[rk]) <= MAX_ATTACHMENTS
        /\ \A k \in 1..Len(channel) : Len(channel[k].files) <= MAX_ATTACHMENTS

\* A group of 2, 2, 2, 2, 1 and 2 files: the nine pending files were sent
\* ahead of the last item, which did not fit
C29_Witness ==
    /\ pc = "done" /\ SegmentedPath
    /\ \E k \in 1..Len(channel) :
          /\ Len(channel[k].files) = MAX_ATTACHMENTS - 1
          /\ k < Len(channel) /\ Len(channel[k + 1].files) = 2

\* C27: fetch_existing_filenames collects filenames from at most max_messages
\* messages, and every turn of its loop that goes on fetches at least one
\* more message, so that it returns.
C27_AtMostMaxMessages ==
    /\ [](Cardinality(fetch.existing) <= fetch.max_messages)
    /\ [][pc' = "fetch" => fetch'.fetched > fetch.fetched]_vars

\* C28: the dedupe step of send_media_job removes a scanned file only if the
\* variant set of its name meets the variant set of a name fetched from the
\* remote history.
C28_RemovedOnlyIfVariantsMeet ==
    pc = "deduped" =>
        \A f \in FilesOf(filterIn) \ FilesOf(result) :
            \E r \in job.existing_set : Variants(f.name) \cap Variants(r) # {}

\* The names the store holds for the key k
StoredNames(s, k) == IF k \in DOMAIN s.data THEN s.heap[s.data[k]] ELSE {}

\* The names loaded for k and the names the add calls that have returned were
\* given for k, lowercased, with or without the empty name
NamesGiven(k, withEmpty) ==
    (IF k \in DOMAIN store.loaded THEN store.loaded[k] ELSE {})
    \cup UNION { IF withEmpty THEN LowerNames(threads[t].names) ELSE AddedNames(threads[t].names) :
                 t \in { u \in DOMAIN threads : /\ threads[u].op = "add"
                                                /\ threads[u].key = k
                                                /\ threads[u].pc = "done" } }

AllReturned == \A t \in DOMAIN threads : threads[t].pc = "done"

\* Every stored name is lowercase
StoredLowercase ==
    \A k \in StoreIds : \A n \in StoredNames(store, k) : n = Lower(n)

\* No step takes a name out of the store, and the step in which a caller
\* changes the set it got from get_names_for leaves the store as it is
StoreOnlyGrows ==
    /\ \A k \in StoreIds : StoredNames(store, k) \subseteq StoredNames(store', k)
    /\ \A t \in DOMAIN threads :
          (threads[t].pc = "got" /\ threads'[t].pc = "done")
              => \A k \in StoreIds : StoredNames(store', k) = StoredNames(store, k)

\* C30 (as stated): under every interleaving of add_names_for and
\* get_names_for calls the store only grows, holds lowercase names only, is
\* not changed through a returned set, and once every call has returned it
\* holds for each id exactly the lowercased names loaded or added for it.
C30_StoreHoldsEveryAddedName ==
    /\ [][StoreOnlyGrows]_vars
    /\ [](StoredLowercase)
    /\ [](AllReturned => \A k \in StoreIds : StoredNames(store, k) = NamesGiven(k, TRUE))

\* C30 (amended): the same, the names added being the non-empty ones:
\* add_names_for leaves out every empty name.
C30_StoreHoldsEveryNonEmptyAddedName ==
    /\ [][StoreOnlyGrows]_vars
    /\ [](StoredLowercase)
    /\ [](AllReturned => \A k \in StoreIds : StoredNames(store, k) = NamesGiven(k, FALSE))

\* Two threads have added names for the id the file already had names for
C30_Witness ==
    /\ Len(threads) = 2 /\ AllReturned
    /\ \A t \in DOMAIN threads : threads[t].op = "add" /\ threads[t].key = "1"
    /\ StoredNames(store, "1") = { "old.mp4", "a.mp4", "b.gif" }

====
